---- MODULE Spec2Model ----
(***************************************************************************)
(* A model of the data-transformation core of the JSON formatter:          *)
(*   - schema inference      (src/src/utils/schemaInference.ts)             *)
(*   - key sorting, search   (src/unnamed/part_004, i.e. utils/jsonUtils)   *)
(*   - YAML, XML, CSV export (src/src/app/page.tsx, ExportModal.tsx)        *)
(*   - error parsing         (src/src/utils/errorParser.ts)                 *)
(* and of the JsonFormatter component that loads the text and opens the    *)
(* export dialog (src/unnamed/part_002).                                   *)
(*                                                                         *)
(* A JavaScript string is a sequence of one-character strings, so that     *)
(* concatenation, includes(), toLowerCase() and localeCompare() are        *)
(* computed and not assumed.  A JSON value is a tagged record; an object   *)
(* is the sequence of its <<key, value>> entries in the order JavaScript   *)
(* enumerates its own properties (Object.keys / Object.entries order).     *)
(***************************************************************************)
EXTENDS Integers, Sequences, FiniteSets, TLC

VARIABLES
    data,           \* the parsed JSON value handed to the core
    schema,         \* <<>> or <<inferSchema(data)>>
    swapped,        \* <<>> or <<inferSchema of the two-element array data, elements swapped>>
    searchQuery,    \* the text of the search box (JsonFormatter state)
    caller,         \* "none", "searchJson" (called directly) or "searchMatches" (the memo)
    query,          \* the query of the last searchJson call
    caseSensitive,  \* the caseSensitive flag of the last searchJson call
    matches,        \* <<>> or <<the list searchJson returned>>
    sorted,         \* <<>> or <<sortObjectKeys(data)>>
    resorted,       \* <<>> or <<sortObjectKeys(sortObjectKeys(data))>>
    mem,            \* data as objects in memory: [heap, val], val the reference to the root
    memAfter,       \* <<>> or <<[heap, val]>>: memory and result after sortObjectKeys(root)
    showExportModal,\* is the export dialog open (JsonFormatter state)
    selectedFormat, \* the format chosen in the export dialog (ExportModal state)
    exportContent,  \* <<>> or <<the value of the exportContent memo>>
    jsonString,     \* the text JSON.parse rejected
    err,            \* err.message of the SyntaxError JSON.parse threw
    parsedError,    \* <<>> or <<parseJsonError(jsonString, error)>>
    errorSnippet,   \* <<>> or <<the snippet shown under the error message>>
    inputText,      \* the text of the input area (JsonFormatter state `input`)
    isLoading,      \* JsonFormatter state
    showUrlInput,   \* is the URL input bar shown (JsonFormatter state)
    urlInput,       \* the text of the URL input (JsonFormatter state)
    loadError,      \* the load error message, <<>> for "" (JsonFormatter state)
    loads,          \* the file reads and URL fetches started so far, in start order:
                    \* [kind, text, status], status "pending", "done" or "failed"
    lastKey         \* the key of the last event when it was a key press, else ""

inputVars == <<data, mem>>
schemaVars == <<schema, swapped>>
searchVars == <<searchQuery, caller, query, caseSensitive, matches>>
sortVars == <<sorted, resorted, memAfter>>
exportVars == <<showExportModal, selectedFormat, exportContent>>
errorVars == <<jsonString, err, parsedError, errorSnippet>>

uiVars == <<inputText, isLoading, showUrlInput, urlInput, loadError, loads, lastKey>>

vars == <<inputVars, schemaVars, searchVars, sortVars, exportVars, errorVars, uiVars>>

----------------------------------------------------------------------------
(* JSON values *)

JNull == [t |-> "null"]
JBool(b) == [t |-> "boolean", v |-> b]
JNum(n) == [t |-> "number", v |-> n]
JStr(s) == [t |-> "string", v |-> s]
JArr(xs) == [t |-> "array", v |-> xs]
JObj(es) == [t |-> "object", v |-> es]

IsLeaf(value) == value.t \in {"null", "boolean", "number", "string"}

\* All sequences over S of length at most n.
SeqsUpTo(S, n) == UNION {[1..k -> S] : k \in 0..n}

----------------------------------------------------------------------------
(* Strings *)

Digits == <<"0", "1", "2", "3", "4", "5", "6", "7", "8", "9">>

IsDigit(c) == \E i \in 1..10 : Digits[i] = c

DigitVal(c) == (CHOOSE i \in 1..10 : Digits[i] = c) - 1

\* String.prototype.includes
Includes(hay, needle) ==
    \E i \in 0..(Len(hay) - Len(needle)) :
        SubSeq(hay, i + 1, i + Len(needle)) = needle

\* String(n) for a non-negative integer n: its decimal digits.
RECURSIVE NumberToString(_)
NumberToString(n) ==
    IF n < 10 THEN <<Digits[n + 1]>>
    ELSE NumberToString(n \div 10) \o <<Digits[(n % 10) + 1]>>

----------------------------------------------------------------------------
(* Schema inference: src/src/utils/schemaInference.ts *)

\* A SchemaNode.  An optional field is <<>> when undefined and a one-element
\* sequence when set; a Map is the sequence of its <<key, node>> entries in
\* insertion order.
getJsonType(value) == value.t

createEmptyNode ==
    [types |-> {}, occurrences |-> 0, hasInconsistentTypes |-> FALSE,
     children |-> <<>>, items |-> <<>>]

\* Map.prototype.has / get / set on a sequence of <<key, value>> entries.
MapHas(m, key) == \E i \in 1..Len(m) : m[i][1] = key

MapIndex(m, key) == CHOOSE i \in 1..Len(m) : m[i][1] = key

MapGet(m, key) == m[MapIndex(m, key)][2]

MapSet(m, key, val) ==
    IF MapHas(m, key)
    THEN [m EXCEPT ![MapIndex(m, key)] = <<key, val>>]
    ELSE Append(m, <<key, val>>)

\* source.types.forEach((t) => target.types.add(t)); a faulty variant keeps
\* the types target already has.
MergeTypesDropping(targetTypes, sourceTypes) ==
    IF targetTypes = {} THEN sourceTypes ELSE targetTypes

MergeTypes(targetTypes, sourceTypes) == targetTypes \cup sourceTypes

\* nonNullTypes.length > 1; a faulty variant omits the filter on "null".
CountsNullAsType(types) == Cardinality(types) > 1

MoreThanOneNonNull(types) == Cardinality(types \ {"null"}) > 1

\* mergeSchemaNodes mutates target in place; the merged target is returned
\* here.  Every source passed in by inferSchemaFromValue is a freshly built
\* tree that is dropped after the call, so the sharing of source's child and
\* items nodes with target is never observed through source.
RECURSIVE mergeSchemaNodes(_, _)
RECURSIVE MergeChildren(_, _, _)

\* source.children.forEach(...) from entry i on, into the target Map tc.
MergeChildren(tc, sc, i) ==
    IF i > Len(sc) THEN tc
    ELSE LET key == sc[i][1]
             childNode == sc[i][2]
         IN MergeChildren(
                IF MapHas(tc, key)
                THEN MapSet(tc, key, mergeSchemaNodes(MapGet(tc, key), childNode))
                ELSE MapSet(tc, key, childNode),
                sc, i + 1)

mergeSchemaNodes(target, source) ==
    LET types == MergeTypes(target.types, source.types)
        children ==
            IF source.children # <<>>
            THEN <<MergeChildren(
                      IF target.children = <<>> THEN <<>> ELSE target.children[1],
                      source.children[1], 1)>>
            ELSE target.children
        items ==
            IF source.items # <<>>
            THEN IF target.items = <<>>
                 THEN source.items
                 ELSE <<mergeSchemaNodes(target.items[1], source.items[1])>>
            ELSE target.items
    IN [types |-> types,
        occurrences |-> target.occurrences + source.occurrences,
        hasInconsistentTypes |-> MoreThanOneNonNull(types),
        children |-> children,
        items |-> items]

\* if (arr.length > 0): an empty array gets no items node; a faulty variant
\* gives every array one.
HasElementsAlways(arr) == TRUE

HasElements(arr) == Len(arr) > 0

RECURSIVE inferSchemaFromValue(_)
RECURSIVE InferChildren(_, _, _)
RECURSIVE InferItems(_, _, _)

\* for (const [key, val] of Object.entries(obj)) node.children.set(key, ...)
InferChildren(m, entries, i) ==
    IF i > Len(entries) THEN m
    ELSE InferChildren(
             MapSet(m, entries[i][1], inferSchemaFromValue(entries[i][2])),
             entries, i + 1)

\* for (const item of arr) mergeSchemaNodes(node.items, inferSchemaFromValue(item))
InferItems(itemsNode, arr, i) ==
    IF i > Len(arr) THEN itemsNode
    ELSE InferItems(mergeSchemaNodes(itemsNode, inferSchemaFromValue(arr[i])),
                    arr, i + 1)

inferSchemaFromValue(value) ==
    LET type == getJsonType(value)
        node == [createEmptyNode EXCEPT !.types = {type}, !.occurrences = 1]
    IN IF type = "object"
       THEN [node EXCEPT !.children = <<InferChildren(<<>>, value.v, 1)>>]
       ELSE IF type = "array" /\ HasElements(value.v)
       THEN [node EXCEPT !.items = <<InferItems(createEmptyNode, value.v, 1)>>]
       ELSE node

RootLabel == <<"(", "r", "o", "o", "t", ")">>

RECURSIVE collectInconsistentPaths(_, _, _)
RECURSIVE CollectChildren(_, _, _, _)

\* node.children.forEach((child, key) => ...) from entry i on
CollectChildren(m, i, currentPath, paths) ==
    IF i > Len(m) THEN paths
    ELSE LET key == m[i][1]
             childPath == IF currentPath # <<>>
                          THEN currentPath \o <<".">> \o key
                          ELSE key
         IN CollectChildren(m, i + 1, currentPath,
                collectInconsistentPaths(m[i][2], childPath, paths))

collectInconsistentPaths(node, currentPath, paths) ==
    LET p1 == IF node.hasInconsistentTypes
              THEN Append(paths, IF currentPath # <<>> THEN currentPath ELSE RootLabel)
              ELSE paths
        p2 == IF node.children # <<>>
              THEN CollectChildren(node.children[1], 1, currentPath, p1)
              ELSE p1
    IN IF node.items # <<>>
       THEN collectInconsistentPaths(
                node.items[1],
                IF currentPath # <<>> THEN currentPath \o <<"[", "]">> ELSE <<"[", "]">>,
                p2)
       ELSE p2

inferSchema(d) ==
    LET root == inferSchemaFromValue(d)
    IN [root |-> root, inconsistentPaths |-> collectInconsistentPaths(root, <<>>, <<>>)]

----------------------------------------------------------------------------
(* JavaScript strings and objects, as far as jsonUtils relies on them *)

LowerLetters == <<"a", "b", "c", "d", "e", "f", "g", "h", "i", "j", "k", "l", "m",
                  "n", "o", "p", "q", "r", "s", "t", "u", "v", "w", "x", "y", "z">>

UpperLetters == <<"A", "B", "C", "D", "E", "F", "G", "H", "I", "J", "K", "L", "M",
                  "N", "O", "P", "Q", "R", "S", "T", "U", "V", "W", "X", "Y", "Z">>

IsUpper(c) == \E i \in 1..Len(UpperLetters) : UpperLetters[i] = c

ToLowerChar(c) ==
    IF IsUpper(c)
    THEN LowerLetters[CHOOSE i \in 1..Len(UpperLetters) : UpperLetters[i] = c]
    ELSE c

\* String.prototype.toLowerCase
toLowerCase(s) == [i \in 1..Len(s) |-> ToLowerChar(s[i])]

IsSpace(c) == c = " "

\* String.prototype.trim
RECURSIVE trim(_)
trim(s) ==
    IF s = <<>> THEN s
    ELSE IF IsSpace(s[1]) THEN trim(Tail(s))
    ELSE IF IsSpace(s[Len(s)]) THEN trim(SubSeq(s, 1, Len(s) - 1))
    ELSE s

\* The primary collation order of the characters used: punctuation, then
\* digits, then letters; upper and lower case share a primary weight.
CollationOrder ==
    <<" ", "_", "-", ".", "[", "]">> \o Digits \o LowerLetters

CollationRank(c) ==
    CHOOSE i \in 1..Len(CollationOrder) : CollationOrder[i] = ToLowerChar(c)

\* a.localeCompare(b, undefined, { sensitivity: "base" }): negative, 0, positive
RECURSIVE localeCompareBase(_, _)
localeCompareBase(a, b) ==
    IF a = <<>> /\ b = <<>> THEN 0
    ELSE IF a = <<>> THEN -1
    ELSE IF b = <<>> THEN 1
    ELSE IF CollationRank(a[1]) < CollationRank(b[1]) THEN -1
    ELSE IF CollationRank(a[1]) > CollationRank(b[1]) THEN 1
    ELSE localeCompareBase(Tail(a), Tail(b))

\* Array.prototype.sort is stable: a key goes after every key that does not
\* compare greater than it.  A faulty variant (an unstable sort) puts it before
\* the keys it compares equal to.
RECURSIVE InsertBeforeTies(_, _)
InsertBeforeTies(s, k) ==
    IF s = <<>> THEN <<k>>
    ELSE IF localeCompareBase(s[Len(s)], k) < 0 THEN Append(s, k)
    ELSE Append(InsertBeforeTies(SubSeq(s, 1, Len(s) - 1), k), s[Len(s)])

RECURSIVE InsertSorted(_, _)
InsertSorted(s, k) ==
    IF s = <<>> THEN <<k>>
    ELSE IF localeCompareBase(s[Len(s)], k) <= 0 THEN Append(s, k)
    ELSE Append(InsertSorted(SubSeq(s, 1, Len(s) - 1), k), s[Len(s)])

RECURSIVE SortFrom(_, _, _)
SortFrom(acc, keys, i) ==
    IF i > Len(keys) THEN acc
    ELSE SortFrom(InsertSorted(acc, keys[i]), keys, i + 1)

\* keys.sort((a, b) => a.localeCompare(b, undefined, { sensitivity: "base" }))
SortKeys(keys) == SortFrom(<<>>, keys, 1)

\* Object.keys(obj)
ObjectKeys(obj) == [i \in 1..Len(obj) |-> obj[i][1]]

\* 2^32 - 2, the largest array index, as its decimal digits.
MaxArrayIndexDigits == <<"4", "2", "9", "4", "9", "6", "7", "2", "9", "4">>

\* a <= b for two digit strings of the same length
RECURSIVE DigitsLeq(_, _)
DigitsLeq(a, b) ==
    IF a = <<>> THEN TRUE
    ELSE IF DigitVal(a[1]) # DigitVal(b[1]) THEN DigitVal(a[1]) < DigitVal(b[1])
    ELSE DigitsLeq(Tail(a), Tail(b))

\* An "array index" property key: the canonical decimal form of an integer in
\* 0 .. 2^32 - 2.  Own properties with such keys are enumerated first, in
\* ascending numeric order, whatever the order they were created in.
IsArrayIndex(key) ==
    /\ key # <<>>
    /\ \A i \in 1..Len(key) : IsDigit(key[i])
    /\ (Len(key) = 1 \/ key[1] # "0")
    /\ \/ Len(key) < Len(MaxArrayIndexDigits)
       \/ Len(key) = Len(MaxArrayIndexDigits) /\ DigitsLeq(key, MaxArrayIndexDigits)

\* index a < index b, numerically
IndexLess(a, b) ==
    \/ Len(a) < Len(b)
    \/ Len(a) = Len(b) /\ a # b /\ DigitsLeq(a, b)

ProtoKey == <<"_", "_", "p", "r", "o", "t", "o", "_", "_">>

\* The position at which a new own property named key is enumerated.
RECURSIVE InsertPosition(_, _, _)
InsertPosition(obj, key, i) ==
    IF i > Len(obj) THEN i
    ELSE IF ~IsArrayIndex(obj[i][1]) THEN i
    ELSE IF IndexLess(key, obj[i][1]) THEN i
    ELSE InsertPosition(obj, key, i + 1)

InsertAt(s, i, e) == SubSeq(s, 1, i - 1) \o <<e>> \o SubSeq(s, i, Len(s))

\* obj[key] = val on an object created by the literal {}.  The key
\* "__proto__" reaches the accessor inherited from Object.prototype, which
\* creates no own property (it replaces the prototype when val is an object
\* or null and does nothing otherwise).
PropertySet(obj, key, val) ==
    IF key = ProtoKey THEN obj
    ELSE IF MapHas(obj, key) THEN MapSet(obj, key, val)
    ELSE IF IsArrayIndex(key) THEN InsertAt(obj, InsertPosition(obj, key, 1), <<key, val>>)
    ELSE Append(obj, <<key, val>>)

\* The entries of a JavaScript object are kept in enumeration order.
PropertyOrdered(obj) ==
    /\ \A i, j \in 1..Len(obj) : i # j => obj[i][1] # obj[j][1]
    /\ \A i, j \in 1..Len(obj) :
          (i < j /\ IsArrayIndex(obj[j][1])) =>
              /\ IsArrayIndex(obj[i][1])
              /\ IndexLess(obj[i][1], obj[j][1])

----------------------------------------------------------------------------
(* Key sorting: src/unnamed/part_004, sortObjectKeys *)

RECURSIVE sortObjectKeys(_)
RECURSIVE BuildSorted(_, _, _, _)

\* for (const key of keys) sorted[key] = sortObjectKeys(value[key])
BuildSorted(acc, obj, keys, i) ==
    IF i > Len(keys) THEN acc
    ELSE BuildSorted(
             PropertySet(acc, keys[i], sortObjectKeys(MapGet(obj, keys[i]))),
             obj, keys, i + 1)

sortObjectKeys(value) ==
    IF IsLeaf(value) THEN value
    ELSE IF value.t = "array"
    THEN JArr([i \in 1..Len(value.v) |-> sortObjectKeys(value.v[i])])
    ELSE JObj(BuildSorted(<<>>, value.v, SortKeys(ObjectKeys(value.v)), 1))

----------------------------------------------------------------------------
(* Key sorting on objects in memory: src/unnamed/part_004, sortObjectKeys.  *)
(* The heap is a sequence of cells (arrays and objects); an address is an   *)
(* index into it, and a value is a primitive or a reference to a cell.      *)
(* Object identity is the address.                                          *)

Ref(a) == [t |-> "ref", a |-> a]
Undefined == [t |-> "undefined"]

\* value[key]
PropertyGet(obj, key) == IF MapHas(obj, key) THEN MapGet(obj, key) ELSE Undefined

\* value[i] as Array.prototype.map reads it
ItemGet(cell, i) ==
    IF cell.t = "array" /\ i <= Len(cell.v) THEN cell.v[i] ELSE Undefined

\* An allocator that hands out the most recently allocated address again.
AllocateReusing(heap, cell) ==
    [heap |-> [heap EXCEPT ![Len(heap)] = cell], a |-> Len(heap)]

\* A new array (the result of map) or a new object (the literal {}).
Allocate(heap, cell) == [heap |-> Append(heap, cell), a |-> Len(heap) + 1]

RECURSIVE Load(_, _)
RECURSIVE LoadItems(_, _, _, _)
RECURSIVE LoadEntries(_, _, _, _)

LoadItems(heap, xs, i, acc) ==
    IF i > Len(xs) THEN [heap |-> heap, vals |-> acc]
    ELSE LET r == Load(heap, xs[i])
         IN  LoadItems(r.heap, xs, i + 1, Append(acc, r.val))

LoadEntries(heap, es, i, acc) ==
    IF i > Len(es) THEN [heap |-> heap, vals |-> acc]
    ELSE LET r == Load(heap, es[i][2])
         IN  LoadEntries(r.heap, es, i + 1, Append(acc, <<es[i][1], r.val>>))

\* The value tree as JSON.parse leaves it in memory: one cell per array and
\* per object, the root allocated last.
Load(heap, value) ==
    IF IsLeaf(value) THEN [heap |-> heap, val |-> value]
    ELSE IF value.t = "array"
    THEN LET r == LoadItems(heap, value.v, 1, <<>>)
         IN  [heap |-> Append(r.heap, JArr(r.vals)), val |-> Ref(Len(r.heap) + 1)]
    ELSE LET r == LoadEntries(heap, value.v, 1, <<>>)
         IN  [heap |-> Append(r.heap, JObj(r.vals)), val |-> Ref(Len(r.heap) + 1)]

RECURSIVE sortObjectKeysMem(_, _)
RECURSIVE MapItemsMem(_, _, _, _, _)
RECURSIVE BuildSortedMem(_, _, _, _, _)

\* value.map(sortObjectKeys): n is the length when map starts
MapItemsMem(heap, a, n, i, acc) ==
    IF i > n THEN [heap |-> heap, vals |-> acc]
    ELSE LET r == sortObjectKeysMem(heap, ItemGet(heap[a], i))
         IN  MapItemsMem(r.heap, a, n, i + 1, Append(acc, r.val))

\* for (const key of keys) sorted[key] = sortObjectKeys(value[key])
BuildSortedMem(heap, target, a, keys, i) ==
    IF i > Len(keys) THEN heap
    ELSE LET r == sortObjectKeysMem(heap, PropertyGet(heap[a].v, keys[i]))
         IN  BuildSortedMem(
                 [r.heap EXCEPT ![target] = JObj(PropertySet(@.v, keys[i], r.val))],
                 target, a, keys, i + 1)

sortObjectKeysMem(heap, value) ==
    IF value.t # "ref" THEN [heap |-> heap, val |-> value]
    ELSE IF heap[value.a].t = "array"
    THEN LET r == MapItemsMem(heap, value.a, Len(heap[value.a].v), 1, <<>>)
             n == Allocate(r.heap, JArr(r.vals))
         IN  [heap |-> n.heap, val |-> Ref(n.a)]
    ELSE LET n == Allocate(heap, JObj(<<>>))
             keys == SortKeys(ObjectKeys(n.heap[value.a].v))
         IN  [heap |-> BuildSortedMem(n.heap, n.a, value.a, keys, 1), val |-> Ref(n.a)]

----------------------------------------------------------------------------
(* Search: src/unnamed/part_004, searchJson *)

\* A SearchMatch is [path, type, text].  The model adds loc, the structural
\* position of the key or leaf matched (the 1-based entry / element numbers
\* from the root down).  loc is an auxiliary field: nothing in search reads it.
Match(path, type, text, loc) ==
    [path |-> path, type |-> type, text |-> text, loc |-> loc]

\* const searchQuery = caseSensitive ? query : query.toLowerCase(); a faulty
\* variant never lowercases the query.
SearchQueryRaw(q, cs) == q

SearchQuery(q, cs) == IF cs THEN q ELSE toLowerCase(q)

\* caseSensitive ? text : text.toLowerCase()
CompareText(text, cs) == IF cs THEN text ELSE toLowerCase(text)

NullText == <<"n", "u", "l", "l">>

\* String(value) of a number or a boolean
StringOf(value) ==
    IF value.t = "boolean"
    THEN (IF value.v THEN <<"t", "r", "u", "e">> ELSE <<"f", "a", "l", "s", "e">>)
    ELSE NumberToString(value.v)

\* matches.push(...) of a key match; a faulty variant puts it at the front.
PushKeyMatchFront(ms, m) == <<m>> \o ms

PushKeyMatch(ms, m) == Append(ms, m)

RECURSIVE search(_, _, _, _, _, _)
RECURSIVE SearchItems(_, _, _, _, _, _, _)
RECURSIVE SearchEntries(_, _, _, _, _, _, _)

\* value.forEach((item, index) => search(item, `${path}[${index}]`)) from item i on
SearchItems(arr, i, path, loc, sq, cs, ms) ==
    IF i > Len(arr) THEN ms
    ELSE SearchItems(arr, i + 1, path, loc, sq, cs,
             search(arr[i], path \o <<"[">> \o NumberToString(i - 1) \o <<"]">>,
                    Append(loc, i), sq, cs, ms))

\* for (const [key, val] of Object.entries(value)) ... from entry i on
SearchEntries(obj, i, path, loc, sq, cs, ms) ==
    IF i > Len(obj) THEN ms
    ELSE LET key == obj[i][1]
             keyPath == IF path # <<>> THEN path \o <<".">> \o key ELSE key
             ms1 == IF Includes(CompareText(key, cs), sq)
                    THEN PushKeyMatch(ms, Match(keyPath, "key", key, Append(loc, i)))
                    ELSE ms
         IN SearchEntries(obj, i + 1, path, loc, sq, cs,
                search(obj[i][2], keyPath, Append(loc, i), sq, cs, ms1))

search(value, path, loc, sq, cs, ms) ==
    IF value.t = "null"
    THEN (IF Includes(NullText, sq)
          THEN Append(ms, Match(path, "value", NullText, loc)) ELSE ms)
    ELSE IF value.t = "string"
    THEN (IF Includes(CompareText(value.v, cs), sq)
          THEN Append(ms, Match(path, "value", value.v, loc)) ELSE ms)
    ELSE IF value.t \in {"number", "boolean"}
    THEN (IF Includes(CompareText(StringOf(value), cs), sq)
          THEN Append(ms, Match(path, "value", StringOf(value), loc)) ELSE ms)
    ELSE IF value.t = "array"
    THEN SearchItems(value.v, 1, path, loc, sq, cs, ms)
    ELSE SearchEntries(value.v, 1, path, loc, sq, cs, ms)

searchJson(d, q, cs) == search(d, <<>>, <<>>, SearchQuery(q, cs), cs, <<>>)

\* The searchMatches memo of JsonFormatter (result.success holds: data is a
\* parsed value): an empty or blank query never reaches searchJson.  A faulty
\* variant omits that guard.
searchMatchesUnguarded(d, rawQuery) == searchJson(d, trim(rawQuery), FALSE)

searchMatches(d, rawQuery) ==
    IF trim(rawQuery) = <<>> THEN <<>>
    ELSE searchJson(d, trim(rawQuery), FALSE)

----------------------------------------------------------------------------
(* Text: the string operations the converters use *)

IsLower(c) == \E i \in 1..Len(LowerLetters) : LowerLetters[i] = c

IsLetter(c) == IsLower(c) \/ IsUpper(c)

\* \w
IsWordChar(c) == IsLetter(c) \/ IsDigit(c) \/ c = "_"

\* \s
IsWhitespace(c) == c \in {" ", "\n", "\t"}

HasChar(str, c) == \E i \in 1..Len(str) : str[i] = c

\* Array.prototype.join
RECURSIVE Join(_, _)
Join(parts, sep) ==
    IF parts = <<>> THEN <<>>
    ELSE IF Len(parts) = 1 THEN parts[1]
    ELSE parts[1] \o sep \o Join(Tail(parts), sep)

\* String.prototype.repeat
RECURSIVE Repeat(_, _)
Repeat(str, n) == IF n = 0 THEN <<>> ELSE str \o Repeat(str, n - 1)

\* str.replace(/c/g, by) for a single character c
RECURSIVE ReplaceAll(_, _, _)
ReplaceAll(str, c, by) ==
    IF str = <<>> THEN <<>>
    ELSE (IF str[1] = c THEN by ELSE <<str[1]>>) \o ReplaceAll(Tail(str), c, by)

\* String.prototype.trimStart
RECURSIVE trimStart(_)
trimStart(str) ==
    IF str # <<>> /\ IsWhitespace(str[1]) THEN trimStart(Tail(str)) ELSE str

\* JSON.stringify of a string: the characters that JSON escapes
EscapeJsonChar(c) ==
    IF c = "\"" THEN <<"\\", "\"">>
    ELSE IF c = "\\" THEN <<"\\", "\\">>
    ELSE IF c = "\n" THEN <<"\\", "n">>
    ELSE IF c = "\t" THEN <<"\\", "t">>
    ELSE <<c>>

QuoteJsonString(str) ==
    <<"\"">> \o Join([i \in 1..Len(str) |-> EscapeJsonChar(str[i])], <<>>) \o <<"\"">>

\* JSON.stringify(value)
RECURSIVE JsonStringify(_)
JsonStringify(value) ==
    IF value.t = "null" THEN NullText
    ELSE IF value.t \in {"boolean", "number"} THEN StringOf(value)
    ELSE IF value.t = "string" THEN QuoteJsonString(value.v)
    ELSE IF value.t = "array"
    THEN <<"[">> \o Join([i \in 1..Len(value.v) |-> JsonStringify(value.v[i])], <<",">>) \o <<"]">>
    ELSE <<"{">>
         \o Join([i \in 1..Len(value.v) |->
                     QuoteJsonString(value.v[i][1]) \o <<":">> \o JsonStringify(value.v[i][2])],
                 <<",">>)
         \o <<"}">>

\* JSON.stringify(value, null, space) at nesting depth level, space > 0
RECURSIVE JsonStringifyIndented(_, _, _)
JsonStringifyIndented(value, space, level) ==
    LET inner == Repeat(<<" ">>, space * (level + 1))
        outer == Repeat(<<" ">>, space * level)
    IN  IF IsLeaf(value) \/ value.v = <<>> THEN JsonStringify(value)
        ELSE IF value.t = "array"
        THEN <<"[", "\n">>
             \o Join([i \in 1..Len(value.v) |->
                         inner \o JsonStringifyIndented(value.v[i], space, level + 1)],
                     <<",", "\n">>)
             \o <<"\n">> \o outer \o <<"]">>
        ELSE <<"{", "\n">>
             \o Join([i \in 1..Len(value.v) |->
                         inner \o QuoteJsonString(value.v[i][1]) \o <<":", " ">>
                         \o JsonStringifyIndented(value.v[i][2], space, level + 1)],
                     <<",", "\n">>)
             \o <<"\n">> \o outer \o <<"}">>

----------------------------------------------------------------------------
(* YAML: src/src/app/page.tsx, jsonToYaml *)

YamlKeywords == {<<"t", "r", "u", "e">>, <<"f", "a", "l", "s", "e">>, <<"n", "u", "l", "l">>, <<"y", "e", "s">>, <<"n", "o">>, <<"o", "n">>, <<"o", "f", "f">>}

\* /^[\d.]+$/
DigitsAndDots(str) ==
    /\ str # <<>>
    /\ \A i \in 1..Len(str) : IsDigit(str[i]) \/ str[i] = "."

\* A faulty variant that does not look for '#'.
NeedsQuotingNoHash(str) ==
    \/ str = <<>>
    \/ HasChar(str, "\n")
    \/ HasChar(str, ":")
    \/ str[1] = " "
    \/ str[Len(str)] = " "
    \/ DigitsAndDots(str)
    \/ toLowerCase(str) \in YamlKeywords

\* The condition under which jsonToYaml quotes a string
NeedsQuoting(str) ==
    \/ str = <<>>
    \/ HasChar(str, "\n")
    \/ HasChar(str, ":")
    \/ HasChar(str, "#")
    \/ str[1] = " "
    \/ str[Len(str)] = " "
    \/ DigitsAndDots(str)
    \/ toLowerCase(str) \in YamlKeywords

\* /^[\w-]+$/.test(key) ? key : JSON.stringify(key)
SafeKey(key) ==
    IF key # <<>> /\ \A i \in 1..Len(key) : IsWordChar(key[i]) \/ key[i] = "-"
    THEN key
    ELSE QuoteJsonString(key)

IsContainer(value) == value.t \in {"array", "object"}

RECURSIVE jsonToYaml(_, _)
jsonToYaml(d, indent) ==
    LET spaces == Repeat(<<" ", " ">>, indent)
    IN  IF d.t = "null" THEN NullText
        ELSE IF d.t \in {"boolean", "number"} THEN StringOf(d)
        ELSE IF d.t = "string"
        THEN (IF NeedsQuoting(d.v) THEN QuoteJsonString(d.v) ELSE d.v)
        ELSE IF d.t = "array"
        THEN IF d.v = <<>> THEN <<"[", "]">>
             ELSE <<"\n">>
                  \o Join([i \in 1..Len(d.v) |->
                              LET value == jsonToYaml(d.v[i], indent + 1)
                              IN  IF IsContainer(d.v[i])
                                  THEN spaces \o <<"-", " ">> \o trimStart(value)
                                  ELSE spaces \o <<"-", " ">> \o value],
                          <<"\n">>)
        ELSE IF d.v = <<>> THEN <<"{", "}">>
             ELSE (IF indent = 0 THEN <<>> ELSE <<"\n">>)
                  \o Join([i \in 1..Len(d.v) |->
                              LET yamlValue == jsonToYaml(d.v[i][2], indent + 1)
                                  safeKey == SafeKey(d.v[i][1])
                              IN  IF IsContainer(d.v[i][2]) /\ d.v[i][2].v # <<>>
                                  THEN spaces \o safeKey \o <<":">> \o yamlValue
                                  ELSE spaces \o safeKey \o <<":", " ">> \o yamlValue],
                          <<"\n">>)

----------------------------------------------------------------------------
(* XML: src/src/app/page.tsx, jsonToXml *)

\* A faulty variant that escapes '&' last.
escapeXmlAmpersandLast(str) ==
    ReplaceAll(
        ReplaceAll(
            ReplaceAll(
                ReplaceAll(
                    ReplaceAll(str, "<", <<"&", "l", "t", ";">>),
                    ">", <<"&", "g", "t", ";">>),
                "\"", <<"&", "q", "u", "o", "t", ";">>),
            "'", <<"&", "a", "p", "o", "s", ";">>),
        "&", <<"&", "a", "m", "p", ";">>)

escapeXml(str) ==
    ReplaceAll(
        ReplaceAll(
            ReplaceAll(
                ReplaceAll(
                    ReplaceAll(str, "&", <<"&", "a", "m", "p", ";">>),
                    "<", <<"&", "l", "t", ";">>),
                ">", <<"&", "g", "t", ";">>),
            "\"", <<"&", "q", "u", "o", "t", ";">>),
        "'", <<"&", "a", "p", "o", "s", ";">>)

\* [a-zA-Z0-9_-]
IsTagChar(c) == IsLetter(c) \/ IsDigit(c) \/ c \in {"_", "-"}

\* tagName.replace(/[^a-zA-Z0-9_-]/g, "_").replace(/^[^a-zA-Z_]/, "_")
SafeTag(tagName) ==
    LET cleaned == [i \in 1..Len(tagName) |->
                       IF IsTagChar(tagName[i]) THEN tagName[i] ELSE "_"]
    IN  IF cleaned # <<>> /\ ~(IsLetter(cleaned[1]) \/ cleaned[1] = "_")
        THEN <<"_">> \o Tail(cleaned)
        ELSE cleaned

RootName == <<"r", "o", "o", "t">>

RECURSIVE toXmlElement(_, _, _)
toXmlElement(value, tagName, depth) ==
    LET ind == Repeat(<<" ", " ">>, depth)
        safeTag == SafeTag(tagName)
        open == ind \o <<"<">> \o safeTag \o <<">">>
        close == <<"<", "/">> \o safeTag \o <<">">>
        empty == ind \o <<"<">> \o safeTag \o <<"/", ">">>
    IN  IF value.t = "null" THEN ind \o <<"<">> \o safeTag \o <<" ", "x", "s", "i", ":", "n", "i", "l", "=", "\"", "t", "r", "u", "e", "\"", "/", ">">>
        ELSE IF value.t \in {"boolean", "number"} THEN open \o StringOf(value) \o close
        ELSE IF value.t = "string" THEN open \o escapeXml(value.v) \o close
        ELSE IF value.v = <<>> THEN empty
        ELSE IF value.t = "array"
        THEN open \o <<"\n">>
             \o Join([i \in 1..Len(value.v) |->
                         toXmlElement(value.v[i], <<"i", "t", "e", "m">>, depth + 1)],
                     <<"\n">>)
             \o <<"\n">> \o ind \o close
        ELSE open \o <<"\n">>
             \o Join([i \in 1..Len(value.v) |->
                         toXmlElement(value.v[i][2], value.v[i][1], depth + 1)],
                     <<"\n">>)
             \o <<"\n">> \o ind \o close

XmlDeclaration == <<"<", "?", "x", "m", "l", " ", "v", "e", "r", "s", "i", "o", "n", "=", "\"", "1", ".", "0", "\"", " ", "e", "n", "c", "o", "d", "i", "n", "g", "=", "\"", "U", "T", "F", "-", "8", "\"", "?", ">">>

jsonToXml(d) == XmlDeclaration \o <<"\n">> \o toXmlElement(d, RootName, 0)

----------------------------------------------------------------------------
(* CSV: src/src/app/page.tsx, jsonToCsv and flattenObject *)

\* The characters used, in ascending UTF-16 code unit order.
CodeUnits ==
    <<"\t", "\n", " ", "\"", "#", "&", "'", ",", "-", ".", "/">> \o Digits
    \o <<":", ";", "<", "=", ">", "?">> \o UpperLetters \o <<"[", "\\", "]", "_">>
    \o LowerLetters \o <<"{", "}">>

CodeRank(c) == CHOOSE i \in 1..Len(CodeUnits) : CodeUnits[i] = c

\* a < b as Array.prototype.sort compares strings when given no comparator
RECURSIVE CodeLess(_, _)
CodeLess(a, b) ==
    IF b = <<>> THEN FALSE
    ELSE IF a = <<>> THEN TRUE
    ELSE IF a[1] = b[1] THEN CodeLess(Tail(a), Tail(b))
    ELSE CodeRank(a[1]) < CodeRank(b[1])

RECURSIVE InsertByCode(_, _)
InsertByCode(s, k) ==
    IF s = <<>> THEN <<k>>
    ELSE IF CodeLess(k, s[1]) THEN <<k>> \o s
    ELSE <<s[1]>> \o InsertByCode(Tail(s), k)

\* Array.from(allKeys).sort()
RECURSIVE DefaultSort(_)
DefaultSort(keys) ==
    IF keys = <<>> THEN <<>>
    ELSE InsertByCode(DefaultSort(SubSeq(keys, 1, Len(keys) - 1)), keys[Len(keys)])

\* Set.prototype.add on a set kept in insertion order
SetAdd(keys, k) ==
    IF \E i \in 1..Len(keys) : keys[i] = k THEN keys ELSE Append(keys, k)

\* Object.entries(value): an array has its indices as keys
ObjectEntries(value) ==
    IF value.t = "array"
    THEN [i \in 1..Len(value.v) |-> <<NumberToString(i - 1), value.v[i]>>]
    ELSE value.v

\* String(item) of a primitive or null
StringOfPrimitive(value) ==
    IF value.t = "null" THEN NullText
    ELSE IF value.t = "string" THEN value.v
    ELSE StringOf(value)

\* for (const [key, value] of Object.entries(obj)) ..., from entry i on
RECURSIVE flattenObject(_, _, _, _, _)
flattenObject(entries, i, prefix, result, keys) ==
    IF i > Len(entries) THEN [result |-> result, keys |-> keys]
    ELSE LET key == entries[i][1]
             value == entries[i][2]
             fullKey == IF prefix # <<>> THEN prefix \o <<".">> \o key ELSE key
             step ==
                 IF value.t = "null"
                 THEN [result |-> PropertySet(result, fullKey, NullText),
                       keys |-> SetAdd(keys, fullKey)]
                 ELSE IF value.t = "object"
                 THEN flattenObject(value.v, 1, fullKey, result, keys)
                 ELSE IF value.t = "array"
                 THEN [result |-> PropertySet(result, fullKey, JsonStringify(value)),
                       keys |-> SetAdd(keys, fullKey)]
                 ELSE [result |-> PropertySet(result, fullKey, StringOfPrimitive(value)),
                       keys |-> SetAdd(keys, fullKey)]
         IN  flattenObject(entries, i + 1, prefix, step.result, step.keys)

ValueKey == <<"v", "a", "l", "u", "e">>

\* for (const item of arr) ..., from element i on
RECURSIVE FlattenRows(_, _, _, _)
FlattenRows(arr, i, flatRows, allKeys) ==
    IF i > Len(arr) THEN [flatRows |-> flatRows, allKeys |-> allKeys]
    ELSE IF IsLeaf(arr[i])
    THEN FlattenRows(arr, i + 1,
                     Append(flatRows, << <<ValueKey, StringOfPrimitive(arr[i])>> >>),
                     SetAdd(allKeys, ValueKey))
    ELSE LET r == flattenObject(ObjectEntries(arr[i]), 1, <<>>, <<>>, allKeys)
         IN  FlattenRows(arr, i + 1, Append(flatRows, r.result), r.keys)

\* Names every object created by {} inherits from Object.prototype; reading
\* one of them on a row that has no own property of that name gives a
\* function or an object, never undefined.
ObjectPrototypeNames ==
    {ProtoKey, <<"c", "o", "n", "s", "t", "r", "u", "c", "t", "o", "r">>, <<"t", "o", "S", "t", "r", "i", "n", "g">>, <<"v", "a", "l", "u", "e", "O", "f">>, <<"h", "a", "s", "O", "w", "n", "P", "r", "o", "p", "e", "r", "t", "y">>}

\* Is row[h] a string or undefined?
CellIsText(row, h) == MapHas(row, h) \/ h \notin ObjectPrototypeNames

\* row[h] ?? "", where row[h] is a string or undefined
CellText(row, h) == IF MapHas(row, h) THEN MapGet(row, h) ELSE <<>>

\* A faulty variant that wraps in quotes without doubling the inner quotes.
escapeCsvValueNoDoubling(val) ==
    IF HasChar(val, ",") \/ HasChar(val, "\"") \/ HasChar(val, "\n")
    THEN <<"\"">> \o val \o <<"\"">>
    ELSE val

escapeCsvValue(val) ==
    IF HasChar(val, ",") \/ HasChar(val, "\"") \/ HasChar(val, "\n")
    THEN <<"\"">> \o ReplaceAll(val, "\"", <<"\"", "\"">>) \o <<"\"">>
    ELSE val

CsvError == <<"C", "S", "V", " ", "e", "x", "p", "o", "r", "t", " ", "r", "e", "q", "u", "i", "r", "e", "s", " ", "a", "n", " ", "a", "r", "r", "a", "y", " ", "o", "f", " ", "o", "b", "j", "e", "c", "t", "s", " ", "o", "r", " ", "a", " ", "s", "i", "n", "g", "l", "e", " ", "o", "b", "j", "e", "c", "t">>

\* A faulty variant that refuses a single object.
CsvAcceptsArraysOnly(d) == d.t = "array"

\* jsonToCsv goes on for an array and for a non-null object
CsvAccepts(d) == d.t \in {"array", "object"}

\* The result of jsonToCsv: threw is TRUE when the call ends in a TypeError
\* (val.includes is not a function) instead of returning.
jsonToCsv(d) ==
    IF ~CsvAccepts(d)
    THEN [threw |-> FALSE, success |-> FALSE, csv |-> <<>>, error |-> <<CsvError>>]
    ELSE LET arr == IF d.t = "array" THEN d.v ELSE <<d>>
             flat == FlattenRows(arr, 1, <<>>, <<>>)
             headers == DefaultSort(flat.allKeys)
             flatRows == flat.flatRows
             headerRow == Join([j \in 1..Len(headers) |-> escapeCsvValue(headers[j])], <<",">>)
             dataRows == [r \in 1..Len(flatRows) |->
                             Join([j \in 1..Len(headers) |->
                                      escapeCsvValue(CellText(flatRows[r], headers[j]))],
                                  <<",">>)]
         IN  IF arr = <<>>
             THEN [threw |-> FALSE, success |-> TRUE, csv |-> << <<>> >>, error |-> <<>>]
             ELSE IF \E r \in 1..Len(flatRows), j \in 1..Len(headers) :
                        ~CellIsText(flatRows[r], headers[j])
             THEN [threw |-> TRUE, success |-> FALSE, csv |-> <<>>, error |-> <<>>]
             ELSE [threw |-> FALSE, success |-> TRUE,
                   csv |-> <<Join(<<headerRow>> \o dataRows, <<"\n">>)>>,
                   error |-> <<>>]

----------------------------------------------------------------------------
(* Error parsing: src/src/utils/errorParser.ts *)

\* The (1-based) indices at which lit occurs in str
Occurrences(str, lit) ==
    {i \in 1..(Len(str) - Len(lit) + 1) : SubSeq(str, i, i + Len(lit) - 1) = lit}

SetMin(S) == CHOOSE x \in S : \A y \in S : x <= y

SetMax(S) == CHOOSE x \in S : \A y \in S : x >= y

\* String.prototype.substring(from, to): both ends clamped to the string
Substring(str, from, to) ==
    LET clamp(n) == IF n < 0 THEN 0 ELSE IF n > Len(str) THEN Len(str) ELSE n
        lo == IF clamp(from) <= clamp(to) THEN clamp(from) ELSE clamp(to)
        hi == IF clamp(from) <= clamp(to) THEN clamp(to) ELSE clamp(from)
    IN  SubSeq(str, lo + 1, hi)

\* str without the whitespace that a trailing \s*$ consumes
RECURSIVE DropTrailingSpace(_)
DropTrailingSpace(str) ==
    IF str # <<>> /\ IsWhitespace(str[Len(str)])
    THEN DropTrailingSpace(SubSeq(str, 1, Len(str) - 1))
    ELSE str

\* /[C]\s*$/.test(str) for a set C of characters
EndsWithOneOf(str, C) ==
    DropTrailingSpace(str) # <<>> /\ DropTrailingSpace(str)[Len(DropTrailingSpace(str))] \in C

\* /^\s*[C]/.test(str)
StartsWithOneOf(str, C) == trimStart(str) # <<>> /\ trimStart(str)[1] \in C

\* str.match(/"([^"]+)"\s*$/): <<>> when there is no match, else <<group 1>>
QuotedTail(str) ==
    LET s == DropTrailingSpace(str)
        quotes == {i \in 1..(Len(s) - 1) : s[i] = "\""}
    IN  IF s = <<>> \/ s[Len(s)] # "\"" \/ quotes = {} THEN <<>>
        ELSE IF SetMax(quotes) = Len(s) - 1 THEN <<>>
        ELSE <<SubSeq(s, SetMax(quotes) + 1, Len(s) - 1)>>

\* str.match(/"([^"]+)"\s*:\s*$/)
QuotedKeyBeforeColon(str) ==
    LET s == DropTrailingSpace(str)
    IN  IF s = <<>> \/ s[Len(s)] # ":" THEN <<>>
        ELSE QuotedTail(SubSeq(s, 1, Len(s) - 1))

\* parseInt(digits, 10) of a run of digits
RECURSIVE ParseInt(_)
ParseInt(digits) ==
    IF digits = <<>> THEN 0
    ELSE 10 * ParseInt(SubSeq(digits, 1, Len(digits) - 1)) + DigitVal(digits[Len(digits)])

\* The longest run of digits of str that starts at index i
RECURSIVE DigitRun(_, _)
DigitRun(str, i) ==
    IF i <= Len(str) /\ IsDigit(str[i]) THEN <<str[i]>> \o DigitRun(str, i + 1) ELSE <<>>

\* The index after the whitespace that starts at index i
RECURSIVE SkipSpace(_, _)
SkipSpace(str, i) ==
    IF i <= Len(str) /\ IsWhitespace(str[i]) THEN SkipSpace(str, i + 1) ELSE i

\* The starts of the matches of /position\s+(\d+)/i
PositionMatches(errorMessage) ==
    {i \in Occurrences(toLowerCase(errorMessage), <<"p", "o", "s", "i", "t", "i", "o", "n">>) :
        /\ SkipSpace(errorMessage, i + 8) > i + 8
        /\ DigitRun(errorMessage, SkipSpace(errorMessage, i + 8)) # <<>>}

extractPosition(errorMessage) ==
    IF PositionMatches(errorMessage) = {} THEN <<>>
    ELSE <<ParseInt(DigitRun(errorMessage,
                             SkipSpace(errorMessage, SetMin(PositionMatches(errorMessage)) + 8)))>>

\* A faulty variant that counts the column from the start of the text.
calculateLineAndColumnFromStart(input, position) ==
    LET head == Substring(input, 0, position)
        breaks == {i \in 1..Len(head) : head[i] = "\n"}
    IN  [line |-> Cardinality(breaks) + 1, column |-> Len(head) + 1]

\* input.substring(0, position).split("\n"): the line count, and the length
\* of the last line plus one
calculateLineAndColumn(input, position) ==
    LET head == Substring(input, 0, position)
        breaks == {i \in 1..Len(head) : head[i] = "\n"}
    IN  [line |-> Cardinality(breaks) + 1,
         column |-> (IF breaks = {} THEN Len(head) ELSE Len(head) - SetMax(breaks)) + 1]

ContextWindow == 30

analyzeContext(input, position) ==
    [before |-> Substring(input, IF position - ContextWindow > 0
                                 THEN position - ContextWindow ELSE 0, position),
     after |-> Substring(input, position,
                         IF Len(input) < position + ContextWindow
                         THEN Len(input) ELSE position + ContextWindow),
     char |-> IF position < Len(input) THEN <<input[position + 1]>> ELSE <<>>]

\* The starts of the matches of /Unexpected token (T) .* position (\d+)/i,
\* T one of the characters in tokens
TokenPositionMatches(errorMessage, tokens) ==
    LET low == toLowerCase(errorMessage)
    IN  {i \in Occurrences(low, <<"u", "n", "e", "x", "p", "e", "c", "t", "e", "d", " ", "t", "o", "k", "e", "n", " ">>) :
            /\ i + 18 <= Len(errorMessage)
            /\ errorMessage[i + 17] \in tokens
            /\ errorMessage[i + 18] = " "
            /\ \E j \in Occurrences(low, <<" ", "p", "o", "s", "i", "t", "i", "o", "n", " ">>) :
                  /\ j >= i + 19
                  /\ j + 10 <= Len(errorMessage)
                  /\ IsDigit(errorMessage[j + 10])
                  /\ \A k \in (i + 19)..(j - 1) : errorMessage[k] # "\n"}

\* /Unexpected token .* position (\d+)/i
AnyTokenPositionMatches(errorMessage) ==
    LET low == toLowerCase(errorMessage)
    IN  \E i \in Occurrences(low, <<"u", "n", "e", "x", "p", "e", "c", "t", "e", "d", " ", "t", "o", "k", "e", "n", " ">>) :
            \E j \in Occurrences(low, <<" ", "p", "o", "s", "i", "t", "i", "o", "n", " ">>) :
                /\ j >= i + 17
                /\ j + 10 <= Len(errorMessage)
                /\ IsDigit(errorMessage[j + 10])
                /\ \A k \in (i + 17)..(j - 1) : errorMessage[k] # "\n"

PatternCount == 7

\* errorMessage.match(pattern) succeeds for pattern number k of errorPatterns
PatternMatches(k, errorMessage) ==
    LET low == toLowerCase(errorMessage)
    IN  CASE k = 1 -> TokenPositionMatches(errorMessage, {"}", "]"}) # {}
          [] k = 2 -> TokenPositionMatches(errorMessage, {"}", ","}) # {}
          [] k = 3 -> AnyTokenPositionMatches(errorMessage)
          [] k = 4 -> Includes(low, <<"u", "n", "t", "e", "r", "m", "i", "n", "a", "t", "e", "d", " ", "s", "t", "r", "i", "n", "g">>)
          [] k = 5 -> Includes(low, <<"u", "n", "e", "x", "p", "e", "c", "t", "e", "d", " ", "e", "n", "d", " ", "o", "f", " ", "j", "s", "o", "n", " ", "i", "n", "p", "u", "t">>)
                      \/ Includes(low, <<"u", "n", "e", "x", "p", "e", "c", "t", "e", "d", " ", "e", "n", "d", " ", "o", "f", " ", "i", "n", "p", "u", "t">>)
          [] k = 6 -> Includes(low, <<"e", "x", "p", "e", "c", "t", "e", "d", " ", "p", "r", "o", "p", "e", "r", "t", "y", " ", "n", "a", "m", "e">>)
          [] k = 7 -> Includes(low, <<"u", "n", "e", "x", "p", "e", "c", "t", "e", "d", " ", "t", "o", "k", "e", "n", " ", "'">>)

\* "brace" for '}' and "bracket" otherwise; a faulty variant swaps them.
ClosingNameSwapped(c) == IF c = "}" THEN <<"b", "r", "a", "c", "k", "e", "t">> ELSE <<"b", "r", "a", "c", "e">>

ClosingName(c) == IF c = "}" THEN <<"b", "r", "a", "c", "e">> ELSE <<"b", "r", "a", "c", "k", "e", "t">>

DigitChars == {Digits[i] : i \in 1..Len(Digits)}

KeyWindow == 50

NearWindow == 20

UnterminatedHint == <<"M", "a", "k", "e", " ", "s", "u", "r", "e", " ", "a", "l", "l", " ", "s", "t", "r", "i", "n", "g", "s", " ", "a", "r", "e", " ", "p", "r", "o", "p", "e", "r", "l", "y", " ", "c", "l", "o", "s", "e", "d", " ", "w", "i", "t", "h", " ", "a", " ", "d", "o", "u", "b", "l", "e", " ", "q", "u", "o", "t", "e", ".">>

\* getMessage of pattern number k; position is <<>> or <<p>>
PatternMessage(k, errorMessage, input, position) ==
    CASE k = 1 ->
           <<"E", "x", "t", "r", "a", " ", "c", "o", "m", "m", "a", " ", "b", "e", "f", "o", "r", "e", " ", "c", "l", "o", "s", "i", "n", "g", " ">>
           \o ClosingName(errorMessage[SetMin(TokenPositionMatches(errorMessage, {"}", "]"})) + 17])
      [] k = 2 ->
           (LET keyMatch ==
                    IF position = <<>> THEN <<>>
                    ELSE QuotedKeyBeforeColon(
                             Substring(input,
                                       IF position[1] - KeyWindow > 0
                                       THEN position[1] - KeyWindow ELSE 0,
                                       position[1]))
            IN  IF keyMatch # <<>>
                THEN <<"M", "i", "s", "s", "i", "n", "g", " ", "v", "a", "l", "u", "e", " ", "a", "f", "t", "e", "r", " ", "k", "e", "y", " ", "\"">> \o keyMatch[1] \o <<"\"">>
                ELSE <<"M", "i", "s", "s", "i", "n", "g", " ", "v", "a", "l", "u", "e", " ", "a", "f", "t", "e", "r", " ", "k", "e", "y">>)
      [] k = 3 ->
           (IF position = <<>> THEN <<"U", "n", "e", "x", "p", "e", "c", "t", "e", "d", " ", "c", "h", "a", "r", "a", "c", "t", "e", "r", " ", "f", "o", "u", "n", "d">>
            ELSE LET before == Substring(input,
                                         IF position[1] - NearWindow > 0
                                         THEN position[1] - NearWindow ELSE 0,
                                         position[1])
                     after == Substring(input, position[1], position[1] + NearWindow)
                 IN  IF /\ EndsWithOneOf(before, {"\"", "}", "]"} \cup DigitChars)
                        /\ StartsWithOneOf(after, {"\"", "{", "["})
                     THEN <<"M", "i", "s", "s", "i", "n", "g", " ", "c", "o", "m", "m", "a", " ", "b", "e", "t", "w", "e", "e", "n", " ", "e", "l", "e", "m", "e", "n", "t", "s">>
                     ELSE IF HasChar(before, "\"") THEN <<"U", "n", "t", "e", "r", "m", "i", "n", "a", "t", "e", "d", " ", "s", "t", "r", "i", "n", "g">>
                     ELSE <<"U", "n", "e", "x", "p", "e", "c", "t", "e", "d", " ", "c", "h", "a", "r", "a", "c", "t", "e", "r", " ", "f", "o", "u", "n", "d">>)
      [] k = 4 -> <<"U", "n", "t", "e", "r", "m", "i", "n", "a", "t", "e", "d", " ", "s", "t", "r", "i", "n", "g">>
      [] k = 5 -> <<"U", "n", "e", "x", "p", "e", "c", "t", "e", "d", " ", "e", "n", "d", " ", "o", "f", " ", "i", "n", "p", "u", "t">>
      [] k = 6 -> <<"E", "x", "p", "e", "c", "t", "e", "d", " ", "a", " ", "p", "r", "o", "p", "e", "r", "t", "y", " ", "n", "a", "m", "e">>
      [] k = 7 -> <<"S", "i", "n", "g", "l", "e", " ", "q", "u", "o", "t", "e", "s", " ", "a", "r", "e", " ", "n", "o", "t", " ", "v", "a", "l", "i", "d", " ", "i", "n", " ", "J", "S", "O", "N">>

\* getHint of pattern number k
PatternHint(k, input, position) ==
    CASE k = 1 -> <<"R", "e", "m", "o", "v", "e", " ", "t", "h", "e", " ", "t", "r", "a", "i", "l", "i", "n", "g", " ", "c", "o", "m", "m", "a", " ", "b", "e", "f", "o", "r", "e", " ", "t", "h", "e", " ", "c", "l", "o", "s", "i", "n", "g", " ", "b", "r", "a", "c", "e", " ", "o", "r", " ", "b", "r", "a", "c", "k", "e", "t", ".">>
      [] k = 2 -> <<"A", "d", "d", " ", "a", " ", "v", "a", "l", "u", "e", " ", "a", "f", "t", "e", "r", " ", "t", "h", "e", " ", "c", "o", "l", "o", "n", ".", " ", "E", "v", "e", "r", "y", " ", "k", "e", "y", " ", "m", "u", "s", "t", " ", "h", "a", "v", "e", " ", "a", " ", "v", "a", "l", "u", "e", ".">>
      [] k = 3 ->
           (IF /\ position # <<>>
               /\ HasChar(Substring(input,
                                    IF position[1] - NearWindow > 0
                                    THEN position[1] - NearWindow ELSE 0,
                                    position[1]),
                          "\"")
            THEN UnterminatedHint
            ELSE <<"C", "h", "e", "c", "k", " ", "f", "o", "r", " ", "m", "i", "s", "s", "i", "n", "g", " ", "c", "o", "m", "m", "a", "s", ",", " ", "q", "u", "o", "t", "e", "s", ",", " ", "o", "r", " ", "b", "r", "a", "c", "k", "e", "t", "s", " ", "n", "e", "a", "r", " ", "t", "h", "i", "s", " ", "p", "o", "s", "i", "t", "i", "o", "n", ".">>)
      [] k = 4 -> UnterminatedHint
      [] k = 5 -> <<"T", "h", "e", " ", "J", "S", "O", "N", " ", "i", "s", " ", "i", "n", "c", "o", "m", "p", "l", "e", "t", "e", ".", " ", "C", "h", "e", "c", "k", " ", "f", "o", "r", " ", "m", "i", "s", "s", "i", "n", "g", " ", "c", "l", "o", "s", "i", "n", "g", " ", "b", "r", "a", "c", "k", "e", "t", "s", ",", " ", "b", "r", "a", "c", "e", "s", ",", " ", "o", "r", " ", "q", "u", "o", "t", "e", "s", ".">>
      [] k = 6 -> <<"O", "b", "j", "e", "c", "t", " ", "k", "e", "y", "s", " ", "m", "u", "s", "t", " ", "b", "e", " ", "s", "t", "r", "i", "n", "g", "s", " ", "i", "n", " ", "d", "o", "u", "b", "l", "e", " ", "q", "u", "o", "t", "e", "s", ",", " ", "l", "i", "k", "e", " ", "\"", "n", "a", "m", "e", "\"", ".">>
      [] k = 7 -> <<"J", "S", "O", "N", " ", "r", "e", "q", "u", "i", "r", "e", "s", " ", "d", "o", "u", "b", "l", "e", " ", "q", "u", "o", "t", "e", "s", " ", "f", "o", "r", " ", "s", "t", "r", "i", "n", "g", "s", ".", " ", "R", "e", "p", "l", "a", "c", "e", " ", "'", " ", "w", "i", "t", "h", " ", "\"", ".">>

\* The three context checks, applied in this order to the message and hint
\* of the pattern that matched.
TrailingCommaFound(context) ==
    /\ EndsWithOneOf(context.before, {","})
    /\ context.char \in {<<"}">>, <<"]">>}

MissingColonFound(context) ==
    /\ QuotedTail(context.before) # <<>>
    /\ ~StartsWithOneOf(context.char \o context.after, {":"})

UnquotedKeyFound(context) ==
    /\ EndsWithOneOf(context.before, {"{"}) \/ EndsWithOneOf(context.before, {","})
    /\ context.char # <<>>
    /\ IsLetter(context.char[1]) \/ context.char[1] = "_"

ApplyContext(found, context) ==
    LET one == IF TrailingCommaFound(context)
               THEN [message |-> <<"E", "x", "t", "r", "a", " ", "c", "o", "m", "m", "a", " ", "b", "e", "f", "o", "r", "e", " ", "c", "l", "o", "s", "i", "n", "g", " ">> \o ClosingName(context.char[1]),
                     hint |-> <<"R", "e", "m", "o", "v", "e", " ", "t", "h", "e", " ", "t", "r", "a", "i", "l", "i", "n", "g", " ", "c", "o", "m", "m", "a", ".", " ", "J", "S", "O", "N", " ", "d", "o", "e", "s", "n", "'", "t", " ", "a", "l", "l", "o", "w", " ", "t", "r", "a", "i", "l", "i", "n", "g", " ", "c", "o", "m", "m", "a", "s", ".">>]
               ELSE found
        two == IF MissingColonFound(context)
               THEN [message |-> <<"M", "i", "s", "s", "i", "n", "g", " ", "c", "o", "l", "o", "n", " ", "a", "f", "t", "e", "r", " ", "k", "e", "y", " ", "\"">>
                                 \o QuotedTail(context.before)[1] \o <<"\"">>,
                     hint |-> <<"A", "d", "d", " ", "a", " ", "c", "o", "l", "o", "n", " ", "(", ":", ")", " ", "b", "e", "t", "w", "e", "e", "n", " ", "t", "h", "e", " ", "k", "e", "y", " ", "a", "n", "d", " ", "v", "a", "l", "u", "e", ".">>]
               ELSE one
    IN  IF UnquotedKeyFound(context)
        THEN [message |-> <<"U", "n", "q", "u", "o", "t", "e", "d", " ", "p", "r", "o", "p", "e", "r", "t", "y", " ", "n", "a", "m", "e">>,
              hint |-> <<"O", "b", "j", "e", "c", "t", " ", "k", "e", "y", "s", " ", "m", "u", "s", "t", " ", "b", "e", " ", "w", "r", "a", "p", "p", "e", "d", " ", "i", "n", " ", "d", "o", "u", "b", "l", "e", " ", "q", "u", "o", "t", "e", "s", ",", " ", "l", "i", "k", "e", " ", "\"", "k", "e", "y", "\"", ".">>]
        ELSE two

\* A faulty variant that applies the context checks to the fallback too.
DefaultFallbackWithContext(input, position) ==
    LET fallback == [message |-> <<"I", "n", "v", "a", "l", "i", "d", " ", "J", "S", "O", "N", " ", "s", "y", "n", "t", "a", "x">>,
                     hint |-> <<"C", "h", "e", "c", "k", " ", "f", "o", "r", " ", "m", "i", "s", "s", "i", "n", "g", " ", "c", "o", "m", "m", "a", "s", ",", " ", "q", "u", "o", "t", "e", "s", ",", " ", "c", "o", "l", "o", "n", "s", ",", " ", "o", "r", " ", "b", "r", "a", "c", "k", "e", "t", "s", ".">>]
    IN  IF position = <<>> THEN fallback
        ELSE ApplyContext(fallback, analyzeContext(input, position[1]))

\* The message and hint returned when no pattern matches
DefaultFallback(input, position) ==
    [message |-> <<"I", "n", "v", "a", "l", "i", "d", " ", "J", "S", "O", "N", " ", "s", "y", "n", "t", "a", "x">>,
     hint |-> <<"C", "h", "e", "c", "k", " ", "f", "o", "r", " ", "m", "i", "s", "s", "i", "n", "g", " ", "c", "o", "m", "m", "a", "s", ",", " ", "q", "u", "o", "t", "e", "s", ",", " ", "c", "o", "l", "o", "n", "s", ",", " ", "o", "r", " ", "b", "r", "a", "c", "k", "e", "t", "s", ".">>]

\* The number of the first pattern that matches, 0 when none does
FirstPattern(errorMessage) ==
    IF \E k \in 1..PatternCount : PatternMatches(k, errorMessage)
    THEN SetMin({k \in 1..PatternCount : PatternMatches(k, errorMessage)})
    ELSE 0

\* parseJsonError(input, error), errorMessage being error.message.  The
\* optional fields position, line and column are <<>> when undefined.
parseJsonError(input, errorMessage) ==
    LET position == extractPosition(errorMessage)
        loc == calculateLineAndColumn(input, position[1])
        k == FirstPattern(errorMessage)
        found == [message |-> PatternMessage(k, errorMessage, input, position),
                  hint |-> PatternHint(k, input, position)]
        text == IF k = 0 THEN DefaultFallback(input, position)
                ELSE IF position = <<>> THEN found
                ELSE ApplyContext(found, analyzeContext(input, position[1]))
    IN  [message |-> text.message,
         hint |-> text.hint,
         position |-> position,
         line |-> IF position = <<>> THEN <<>> ELSE <<loc.line>>,
         column |-> IF position = <<>> THEN <<>> ELSE <<loc.column>>]

\* getErrorSnippet(input, position): `${prefix}${before}▶${char}◀${after}${suffix}`
getErrorSnippet(input, position) ==
    LET start == IF position - ContextWindow > 0 THEN position - ContextWindow ELSE 0
        end == IF Len(input) < position + ContextWindow
               THEN Len(input) ELSE position + ContextWindow
        before == Substring(input, start, position)
        after == Substring(input, position, end)
        char == IF position < Len(input) THEN <<input[position + 1]>> ELSE <<>>
        prefix == IF start > 0 THEN <<".", ".", ".">> ELSE <<>>
        suffix == IF end < Len(input) THEN <<".", ".", ".">> ELSE <<>>
    IN  prefix \o before \o <<"▶">> \o char \o <<"◀">> \o after \o suffix

----------------------------------------------------------------------------
(* Inputs *)

Reverse(s) == [i \in 1..Len(s) |-> s[Len(s) + 1 - i]]

Range(s) == {s[i] : i \in 1..Len(s)}

\* Objects with at most n entries, keys from K, values from V, in a property
\* order JSON.parse can produce.
ObjectsOver(K, V, n) ==
    {JObj(es) : es \in {x \in SeqsUpTo(K \X V, n) : PropertyOrdered(x)}}

ArraysOver(V, n) == {JArr(xs) : xs \in SeqsUpTo(V, n)}

\* Schema inference inputs: arrays of at most MaxItems elements.
MaxItems == 2

SchemaLeaves == {JNull, JNum(1), JStr(<<"s">>)}

SchemaInner ==
    {JObj(<< <<(<<"b">>), l>> >>) : l \in {JNum(1), JStr(<<"s">>)}}
    \cup {JArr(<<l>>) : l \in {JNum(1), JStr(<<"s">>)}}
    \cup {JArr(<<>>)}

SchemaElems ==
    SchemaLeaves \cup SchemaInner
    \cup ObjectsOver({<<"a">>, <<"a", ".", "b">>}, SchemaLeaves \cup SchemaInner, 1)
    \cup {JObj(<< <<(<<"a">>), v>>, <<(<<"a", ".", "b">>), l>> >>) :
            v \in SchemaLeaves \cup SchemaInner, l \in SchemaLeaves}

SchemaDocs == SchemaElems \cup ArraysOver(SchemaElems, MaxItems)

\* Search inputs: objects and arrays of at most MaxWidth entries.
MaxWidth == 2

SearchKeys == {<<"a">>, <<"b">>, <<"A", "b">>, <<"a", ".", "b">>}

SearchLeaves == {JNull, JBool(TRUE), JNum(12), JStr(<<"a", "B">>)}

SearchInner ==
    {JObj(<< <<(<<"b">>), JStr(<<"a", "B">>)>> >>),
     JObj(<< <<(<<"A", "b">>), JNull>> >>),
     JArr(<<JStr(<<"a", "B">>), JNull>>),
     JArr(<<JNum(12)>>)}

SearchDocs ==
    SearchLeaves
    \cup ObjectsOver(SearchKeys, SearchLeaves \cup SearchInner, MaxWidth)
    \cup ArraysOver(SearchLeaves \cup SearchInner, MaxWidth)

Queries == {<<>>, <<"a">>, <<"B">>, <<"a", "b">>, <<".">>, <<"1">>, <<"n", "U">>}

BoxTexts == {<<>>, <<" ">>, <<"a">>, <<" ", "B", " ">>}

\* Key sorting inputs: objects of at most MaxKeys entries.
MaxKeys == 3

SortKeyNames == {<<"a">>, <<"A">>, <<"b">>, <<"9">>, <<"1", "0">>, ProtoKey}

SortValues ==
    {JNum(1),
     JObj(<< <<(<<"b">>), JNum(1)>>, <<(<<"a">>), JNum(2)>> >>),
     JArr(<<JObj(<< <<(<<"b">>), JNum(1)>>, <<(<<"A">>), JNull>> >>), JNum(2), JNum(1)>>)}

SortDocs == SortValues \cup ObjectsOver(SortKeyNames, SortValues, MaxKeys)

\* Export inputs.  CSV: arrays of at most MaxRows elements, and single
\* objects; the keys include a dotted key, names inherited from
\* Object.prototype and a name that needs CSV quoting.
MaxRows == 2

CsvKeys == {<<"a">>, <<"c", "o", "n", "s", "t", "r", "u", "c", "t", "o", "r">>, <<"k", ",", "\"", "q">>}

CsvValues == {JNum(1), JNull, JStr(<<"x", ",", "\"", "y">>), JStr(<<"l", "\n", "m">>)}

CsvNested ==
    {JObj(<< <<<<"a", ".", "b">>, JNum(1)>>, <<<<"a">>, JObj(<< <<<<"b">>, JNum(2)>> >>)>> >>),
     JObj(<< <<<<"a">>, JObj(<< <<<<"b">>, JArr(<<JNum(1), JStr(<<"s">>)>>)>> >>)>>,
             <<<<"c">>, JBool(TRUE)>> >>),
     JObj(<< <<ProtoKey, JNum(1)>> >>)}

CsvElems ==
    {JNum(7), JStr(<<"p", ",", "q">>)} \cup ObjectsOver(CsvKeys, CsvValues, 1) \cup CsvNested

CsvDocs == CsvElems \cup ArraysOver(CsvElems, MaxRows)

\* YAML and XML: every string of at most MaxText characters over the
\* characters the converters treat specially, as a value and as a key.
MaxText == 3

YamlAlphabet == {" ", ":", "#", "1", ".", "o", "N", "\n", "-"}

YamlWords ==
    {<<"t", "r", "u", "e">>, <<"T", "r", "u", "e">>, <<"F", "A", "L", "S", "E">>, <<"n", "u", "l", "l">>, <<"y", "e", "s">>, <<"Y", "e", "s">>, <<"o", "f", "f">>, <<"n", "u", "l", "l", "s">>,
     <<"1", "2", ".", "5">>, <<"1", "e", "5">>, <<"a", " ", "b">>, <<" ", "a">>, <<"a", " ">>, <<"a", ":", " ", "b">>, <<"s", "a", "y", " ", "\"", "h", "i", "\"">>}

YamlStrings == SeqsUpTo(YamlAlphabet, MaxText) \cup YamlWords

YamlDocs ==
    {JStr(str) : str \in YamlStrings}
    \cup {JArr(<<JStr(str), JBool(FALSE)>>) : str \in YamlWords}
    \cup {JObj(<< <<<<"k">>, JStr(str)>>, <<<<"n">>, JNum(10)>> >>) : str \in YamlWords}

XmlAlphabet == {"&", "<", ">", "\"", "'", "a", ";"}

XmlStrings == SeqsUpTo(XmlAlphabet, MaxText) \cup {<<"&", "a", "m", "p", ";">>, <<"a", " ", "<", " ", "b", " ", "&", "&", " ", "c">>}

TagAlphabet == {"a", "Z", "1", "-", "_", ".", " "}

TagNames == (SeqsUpTo(TagAlphabet, MaxText) \ {<<>>}) \cup {<<"1", "a", "b", "c">>, <<"a", ".", "b", " ", "c">>}

\* Objects with the empty key "", at the top and below another key, and an
\* array of objects.
XmlNested ==
    {JObj(<< <<(<<>>), v>> >>) : v \in {JNum(1), JNull, JStr(<<"a">>)}}
    \cup {JObj(<< <<name, JObj(<< <<(<<>>), JNum(1)>> >>)>> >>) :
              name \in {<<"a">>, <<"1", " ">>}}
    \cup {JArr(<<JObj(<< <<name, JArr(<<JNum(1), JNull>>)>> >>), JObj(<<>>)>>) :
              name \in {<<"a">>, <<"1", " ">>}}

XmlDocs ==
    {JStr(str) : str \in XmlStrings}
    \cup {JObj(<< <<<<"t">>, JStr(str)>> >>) : str \in XmlStrings}
    \cup {JObj(<< <<name, JNum(1)>> >>) : name \in TagNames}
    \cup XmlNested

ExportDocs == CsvDocs \cup YamlDocs \cup XmlDocs \cup {JNull, JBool(TRUE), JNum(0)}

\* Error parsing inputs: a start, an optional comma, a gap of whitespace of
\* at most MaxGap characters (more than the 30 characters of context
\* analyzeContext looks at) and an end; the error is reported at the start of
\* the text, at the comma, at the end part or past the last character.
MaxGap == 31

ErrorStarts == {<<"{", "\"", "a", "\"", ":", "1">>, <<"[", "1">>, <<"{", "\"", "a", "\"">>, <<"{", "\"", "a", "\"", ":">>, <<"{">>, <<>>}

ErrorCommas == {<<",">>, <<>>}

ErrorGaps ==
    {Repeat(<<" ">>, n) : n \in {0, 1} \cup ((MaxGap - 2)..MaxGap)} \cup {<<"\n">>, <<" ", "\n", " ", " ">>}

ErrorEnds == {<<"}">>, <<"]">>, <<"a", ":", "1", "}">>, <<"\"", "b", "\"">>, <<"1", "}">>, <<>>}

\* The position number n of a case
CasePosition(start, comma, gap, end, n) ==
    CASE n = 0 -> 0
      [] n = 1 -> Len(start)
      [] n = 2 -> Len(start) + Len(comma) + Len(gap)
      [] n = 3 -> Len(start) + Len(comma) + Len(gap) + Len(end) + 1

\* The messages of the SyntaxError for an error at position p of input: the
\* token is the character at p, or another character.
ErrorMessagesAt(input, p) ==
    LET at == <<" ", "i", "n", " ", "J", "S", "O", "N", " ", "a", "t", " ", "p", "o", "s", "i", "t", "i", "o", "n", " ">> \o NumberToString(p)
        tokens == (IF p < Len(input) THEN {<<input[p + 1]>>} ELSE {}) \cup {<<"x">>}
    IN  {<<"U", "n", "e", "x", "p", "e", "c", "t", "e", "d", " ", "t", "o", "k", "e", "n", " ">> \o token \o at : token \in tokens}
        \cup {<<"U", "n", "e", "x", "p", "e", "c", "t", "e", "d", " ", "t", "o", "k", "e", "n", " ", "'">> \o token \o <<"'", ",", " ", "\"">> \o input \o <<"\"", " ", "i", "s", " ", "n", "o", "t", " ", "v", "a", "l", "i", "d", " ", "J", "S", "O", "N">> :
                 token \in tokens}
        \cup {<<"U", "n", "t", "e", "r", "m", "i", "n", "a", "t", "e", "d", " ", "s", "t", "r", "i", "n", "g">> \o at,
              <<"E", "x", "p", "e", "c", "t", "e", "d", " ", "p", "r", "o", "p", "e", "r", "t", "y", " ", "n", "a", "m", "e", " ", "o", "r", " ", "'", "}", "'">> \o at,
              <<"B", "a", "d", " ", "c", "o", "n", "t", "r", "o", "l", " ", "c", "h", "a", "r", "a", "c", "t", "e", "r", " ", "i", "n", " ", "s", "t", "r", "i", "n", "g", " ", "l", "i", "t", "e", "r", "a", "l">> \o at,
              <<"U", "n", "e", "x", "p", "e", "c", "t", "e", "d", " ", "n", "u", "m", "b", "e", "r">> \o at,
              <<"U", "n", "e", "x", "p", "e", "c", "t", "e", "d", " ", "e", "n", "d", " ", "o", "f", " ", "J", "S", "O", "N", " ", "i", "n", "p", "u", "t">>,
              <<"J", "S", "O", "N", ".", "p", "a", "r", "s", "e", ":", " ", "u", "n", "e", "x", "p", "e", "c", "t", "e", "d", " ", "c", "h", "a", "r", "a", "c", "t", "e", "r", " ", "a", "t", " ", "l", "i", "n", "e", " ", "1", " ", "c", "o", "l", "u", "m", "n", " ", "2", " ", "o", "f", " ", "t", "h", "e", " ", "J", "S", "O", "N", " ", "d", "a", "t", "a">>}

----------------------------------------------------------------------------
(* The state machine: one action per call into the core *)

InitWith(docs) ==
    /\ data \in docs
    /\ schema = <<>>
    /\ swapped = <<>>
    /\ searchQuery = <<>>
    /\ caller = "none"
    /\ query = <<>>
    /\ caseSensitive = FALSE
    /\ matches = <<>>
    /\ sorted = <<>>
    /\ resorted = <<>>
    /\ mem = Load(<<>>, data)
    /\ memAfter = <<>>
    /\ showExportModal = FALSE
    /\ selectedFormat = "json"
    /\ exportContent = <<>>
    /\ jsonString = <<>>
    /\ err = <<>>
    /\ parsedError = <<>>
    /\ errorSnippet = <<>>
    /\ inputText = <<>>
    /\ isLoading = FALSE
    /\ showUrlInput = FALSE
    /\ urlInput = <<>>
    /\ loadError = <<>>
    /\ loads = <<>>
    /\ lastKey = ""

\* const schema = inferSchema(parsed)
InferSchema ==
    /\ schema' = <<inferSchema(data)>>
    /\ UNCHANGED <<inputVars, swapped, searchVars, sortVars, exportVars, errorVars, uiVars>>

\* inferSchema of the same array with its elements in the opposite order
InferSwapped ==
    /\ data.t = "array"
    /\ Len(data.v) >= 2
    /\ swapped' = <<inferSchema(JArr(Reverse(data.v)))>>
    /\ UNCHANGED <<inputVars, schema, searchVars, sortVars, exportVars, errorVars, uiVars>>

\* searchJson(data, q, cs), called directly.  searchJson reads nothing but its
\* arguments, so one call per behaviour covers every call.
SearchJson ==
    \E q \in Queries, cs \in BOOLEAN :
        /\ caller = "none"
        /\ caller' = "searchJson"
        /\ query' = q
        /\ caseSensitive' = cs
        /\ matches' = <<searchJson(data, q, cs)>>
        /\ UNCHANGED <<inputVars, schemaVars, searchQuery, sortVars, exportVars, errorVars, uiVars>>

\* The search box changes and the searchMatches memo is recomputed.
SearchMatches ==
    \E text \in BoxTexts :
        /\ caller = "none"
        /\ searchQuery' = text
        /\ caller' = "searchMatches"
        /\ query' = trim(text)
        /\ caseSensitive' = FALSE
        /\ matches' = <<searchMatches(data, text)>>
        /\ UNCHANGED <<inputVars, schemaVars, sortVars, exportVars, errorVars, uiVars>>

\* parsed = sortObjectKeys(parsed)
SortObjectKeys ==
    /\ sorted' = <<sortObjectKeys(data)>>
    /\ memAfter' = <<sortObjectKeysMem(mem.heap, mem.val)>>
    /\ UNCHANGED <<inputVars, schemaVars, searchVars, resorted, exportVars, errorVars, uiVars>>

\* sortObjectKeys applied to the value sortObjectKeys returned
SortAgain ==
    /\ sorted # <<>>
    /\ resorted' = <<sortObjectKeys(sorted[1])>>
    /\ UNCHANGED <<inputVars, schemaVars, searchVars, sorted, memAfter, exportVars, errorVars, uiVars>>

IndentSize == 2

ExportFormats == {"json", "json-minified", "yaml", "xml", "csv"}

\* The value the exportContent memo computes, or threw when computing it
\* ends in an exception.
ExportContentOf(format, d) ==
    LET ok(text) == [threw |-> FALSE, success |-> TRUE, content |-> <<text>>, error |-> <<>>]
        result == jsonToCsv(d)
    IN  IF format = "json" THEN ok(JsonStringifyIndented(d, IndentSize, 0))
        ELSE IF format = "json-minified" THEN ok(JsonStringify(d))
        ELSE IF format = "yaml" THEN ok(jsonToYaml(d, 0))
        ELSE IF format = "xml" THEN ok(jsonToXml(d))
        ELSE IF result.threw
        THEN [threw |-> TRUE, success |-> FALSE, content |-> <<>>, error |-> <<>>]
        ELSE IF result.success THEN ok(result.csv[1])
        ELSE [threw |-> FALSE, success |-> FALSE, content |-> <<>>, error |-> result.error]

\* An exception while rendering takes the page down: nothing runs after it.
Crashed == exportContent # <<>> /\ exportContent[1].threw

\* setShowExportModal(true): ExportModal mounts with the format "json"
OpenExportModal ==
    /\ ~showExportModal
    /\ showExportModal' = TRUE
    /\ selectedFormat' = "json"
    /\ exportContent' = <<ExportContentOf("json", data)>>
    /\ UNCHANGED <<inputVars, schemaVars, searchVars, sortVars, errorVars, uiVars>>

\* setSelectedFormat(format), and the memo recomputed in the next render
SelectFormat ==
    \E format \in ExportFormats :
        /\ showExportModal
        /\ ~Crashed
        /\ selectedFormat' = format
        /\ exportContent' = <<ExportContentOf(format, data)>>
        /\ UNCHANGED <<inputVars, schemaVars, searchVars, sortVars, showExportModal, errorVars, uiVars>>

\* onClose: setShowExportModal(false), ExportModal unmounts
CloseExportModal ==
    /\ showExportModal
    /\ ~Crashed
    /\ showExportModal' = FALSE
    /\ selectedFormat' = "json"
    /\ exportContent' = <<>>
    /\ UNCHANGED <<inputVars, schemaVars, searchVars, sortVars, errorVars, uiVars>>

InitExport == InitWith(ExportDocs)
NextExport == OpenExportModal \/ SelectFormat \/ CloseExportModal
SpecExport == InitExport /\ [][NextExport]_vars

\* catch (err): const parsed = parseJsonError(jsonString, err).
\* parseJsonError reads nothing but its arguments, so one call per behaviour
\* covers every call.
ParseJsonError ==
    \E start \in ErrorStarts, comma \in ErrorCommas, gap \in ErrorGaps, end \in ErrorEnds,
       n \in 0..3 :
        LET input == start \o comma \o gap \o end
        IN  \E message \in ErrorMessagesAt(input, CasePosition(start, comma, gap, end, n)) :
                /\ parsedError = <<>>
                /\ jsonString' = input
                /\ err' = message
                /\ parsedError' = <<parseJsonError(input, message)>>
                /\ errorSnippet' =
                       IF parsedError'[1].position = <<>> THEN <<>>
                       ELSE <<getErrorSnippet(input, parsedError'[1].position[1])>>
                /\ UNCHANGED <<inputVars, schemaVars, searchVars, sortVars, exportVars, uiVars>>

InitError == InitWith({JNull})
NextError == ParseJsonError
SpecError == InitError /\ [][NextError]_vars

InitSchema == InitWith(SchemaDocs)
NextSchema == InferSchema \/ InferSwapped
SpecSchema == InitSchema /\ [][NextSchema]_vars

InitSearch == InitWith(SearchDocs)
NextSearch == SearchJson \/ SearchMatches
SpecSearch == InitSearch /\ [][NextSearch]_vars

InitSort == InitWith(SortDocs)
NextSort == SortObjectKeys \/ SortAgain
SpecSort == InitSort /\ [][NextSort]_vars

----------------------------------------------------------------------------
(* Properties of schema inference *)

InSeq(x, s) == \E i \in 1..Len(s) : s[i] = x

\* Every node of a schema tree: the node, its children, its items node.
RECURSIVE NodesOf(_)
NodesOf(node) ==
    {node}
    \cup (IF node.children = <<>> THEN {}
          ELSE UNION {NodesOf(node.children[1][i][2]) : i \in 1..Len(node.children[1])})
    \cup (IF node.items = <<>> THEN {} ELSE NodesOf(node.items[1]))

IsArrayOfObjects(d) ==
    /\ d.t = "array"
    /\ Len(d.v) > 0
    /\ \A i \in 1..Len(d.v) : d.v[i].t = "object"

\* The keys of the elements of an array of objects.
ElementKeys(d) == UNION {Range(ObjectKeys(d.v[i].v)) : i \in 1..Len(d.v)}

\* The types of the values found under key k across the elements.
TypesUnderKey(d, k) ==
    {MapGet(d.v[i].v, k).t : i \in {j \in 1..Len(d.v) : MapHas(d.v[j].v, k)}}

ItemKeyPath(k) == <<"[", "]", ".">> \o k

\* C1: for an array of objects, inconsistentPaths contains "[].k" if and only
\* if the values under key k across the elements have at least two different
\* non-null types.
C1_PathIffMixedKey ==
    (schema # <<>> /\ IsArrayOfObjects(data)) =>
        \A k \in ElementKeys(data) :
            InSeq(ItemKeyPath(k), schema[1].inconsistentPaths)
                <=> Cardinality(TypesUnderKey(data, k) \ {"null"}) >= 2

\* C2: at every node of the inferred tree, hasInconsistentTypes is true if and
\* only if types holds more than one tag other than "null".
C2_VerdictMatchesTypes ==
    schema # <<>> =>
        \A n \in NodesOf(schema[1].root) :
            n.hasInconsistentTypes <=> Cardinality(n.types \ {"null"}) > 1

\* A tree with a mixed node below the root and a node that holds null beside
\* one other type.
C2_Witness ==
    /\ schema # <<>>
    /\ \E n \in NodesOf(schema[1].root) :
          n # schema[1].root /\ n.hasInconsistentTypes
    /\ \E n \in NodesOf(schema[1].root) :
          "null" \in n.types /\ Cardinality(n.types) = 2 /\ ~n.hasInconsistentTypes

\* C3: the items node of inferSchema([a, b]) and of inferSchema([b, a]) have
\* the same types set and the same hasInconsistentTypes verdict.
C3_MergeOrderIndependent ==
    (schema # <<>> /\ swapped # <<>>) =>
        /\ schema[1].root.items[1].types = swapped[1].root.items[1].types
        /\ schema[1].root.items[1].hasInconsistentTypes
              = swapped[1].root.items[1].hasInconsistentTypes

\* Two elements of different non-null types, inferred in both orders.
C3_Witness ==
    /\ schema # <<>>
    /\ swapped # <<>>
    /\ Len(data.v) = 2
    /\ data.v[1].t # data.v[2].t
    /\ schema[1].root.items[1].hasInconsistentTypes
    /\ swapped[1].root.items[1].types = {data.v[1].t, data.v[2].t}

\* The values merged into the items node of a node that merged the values vs:
\* the elements of the arrays among them.
ElementsMerged(vs) ==
    UNION {Range(v.v) : v \in {x \in vs : x.t = "array"}}

\* The values merged into the child under key of a node that merged vs.
ValuesUnderKey(vs, key) ==
    {MapGet(v.v, key) : v \in {x \in vs : x.t = "object" /\ MapHas(x.v, key)}}

\* A node that merged the values vs has children exactly when it holds
\* "object" and items exactly when it holds "array" and one of vs is a
\* non-empty array; and so below it.
RECURSIVE ShapeMatches(_, _)
ShapeMatches(node, vs) ==
    /\ (node.children # <<>>) <=> ("object" \in node.types)
    /\ (node.items # <<>>) <=>
          /\ "array" \in node.types
          /\ \E v \in vs : v.t = "array" /\ Len(v.v) > 0
    /\ node.items # <<>> => ShapeMatches(node.items[1], ElementsMerged(vs))
    /\ node.children # <<>> =>
          \A i \in 1..Len(node.children[1]) :
              ShapeMatches(node.children[1][i][2],
                           ValuesUnderKey(vs, node.children[1][i][1]))

\* C23: in the tree inferSchema returns, a node has children if and only if
\* "object" is in its types, and has items if and only if "array" is in its
\* types and a non-empty array was merged into it; items nodes merged from
\* elements of different types included.
C23_ChildrenAndItems ==
    schema # <<>> => ShapeMatches(schema[1].root, {data})

\* An items node merged from an empty array and a non-empty one: it has items.
C23_Witness ==
    /\ schema # <<>>
    /\ data.t = "array"
    /\ \E i \in 1..Len(data.v) : data.v[i] = JArr(<<>>)
    /\ \E i \in 1..Len(data.v) : data.v[i].t = "array" /\ Len(data.v[i].v) > 0
    /\ schema[1].root.items # <<>>
    /\ schema[1].root.items[1].items # <<>>
    /\ schema[1].root.items[1].children = <<>>

\* An items node merged from an array and an object: it has items and children.
C23_MixedElements ==
    /\ schema # <<>>
    /\ data.t = "array"
    /\ schema[1].root.items # <<>>
    /\ schema[1].root.items[1].types = {"array", "object"}
    /\ schema[1].root.items[1].items # <<>>
    /\ schema[1].root.items[1].children # <<>>

\* An array of empty arrays: the items node holds "array" and has no items.
C23_EmptyArraysOnly ==
    /\ schema # <<>>
    /\ data = JArr(<<JArr(<<>>), JArr(<<>>)>>)
    /\ schema[1].root.items[1].types = {"array"}
    /\ schema[1].root.items[1].items = <<>>

----------------------------------------------------------------------------
(* Properties of search *)

\* searchJson ran (the memo skips it for a blank search box).
SearchJsonCalled ==
    \/ caller = "searchJson"
    \/ caller = "searchMatches" /\ trim(searchQuery) # <<>>

\* The textual form of a leaf.
LeafText(value) ==
    IF value.t = "null" THEN NullText
    ELSE IF value.t = "string" THEN value.v
    ELSE StringOf(value)

\* Every object key and every leaf of a value, with its structural position.
RECURSIVE Sites(_, _)
Sites(value, loc) ==
    IF IsLeaf(value)
    THEN {[type |-> "value", loc |-> loc, text |-> LeafText(value)]}
    ELSE IF value.t = "array"
    THEN UNION {Sites(value.v[i], Append(loc, i)) : i \in 1..Len(value.v)}
    ELSE UNION {{[type |-> "key", loc |-> Append(loc, i), text |-> value.v[i][1]]}
                    \cup Sites(value.v[i][2], Append(loc, i)) :
                i \in 1..Len(value.v)}

\* The path string of the key or leaf at position loc below value, whose own
\* path is path.
RECURSIVE PathAt(_, _, _)
PathAt(value, loc, path) ==
    IF loc = <<>> THEN path
    ELSE IF value.t = "array"
    THEN PathAt(value.v[loc[1]], Tail(loc),
                path \o <<"[">> \o NumberToString(loc[1] - 1) \o <<"]">>)
    ELSE PathAt(value.v[loc[1]][2], Tail(loc),
                IF path = <<>> THEN value.v[loc[1]][1]
                ELSE path \o <<".">> \o value.v[loc[1]][1])

\* C4: for a non-empty query, no two matches of the same type share a path.
C4_OneMatchPerPathAndType ==
    (SearchJsonCalled /\ query # <<>>) =>
        \A i, j \in 1..Len(matches[1]) :
            (i # j /\ matches[1][i].type = matches[1][j].type)
                => matches[1][i].path # matches[1][j].path

\* C5 as stated: searchJson with the empty query returns no match.
C5_EmptyQueryNoMatch ==
    (caller = "searchJson" /\ query = <<>>) => matches[1] = <<>>

\* C5 as amended: searchJson with the empty query returns one match per object
\* key and per leaf; the searchMatches memo returns no match for a search box
\* that is empty or blank.
C5_EmptyQueryMatchesAll ==
    /\ (caller = "searchJson" /\ query = <<>>) =>
          /\ Len(matches[1]) = Cardinality(Sites(data, <<>>))
          /\ {[type |-> m.type, loc |-> m.loc, text |-> m.text] : m \in Range(matches[1])}
                = Sites(data, <<>>)
    /\ (caller = "searchMatches" /\ trim(searchQuery) = <<>>) => matches[1] = <<>>

C5_Witness ==
    /\ caller = "searchJson"
    /\ query = <<>>
    /\ Len(matches[1]) >= 3
    /\ \E i \in 1..Len(matches[1]) : matches[1][i].type = "key"

\* C6: with caseSensitive false, the matches are exactly the keys and leaves
\* whose lowercased text contains the lowercased query, each once, and the
\* text of a match is the original key or leaf text, its path the path of
\* that key or leaf.
C6_CaseInsensitiveMatches ==
    (SearchJsonCalled /\ ~caseSensitive) =>
        /\ \A i \in 1..Len(matches[1]) :
              matches[1][i].path = PathAt(data, matches[1][i].loc, <<>>)
        /\ {[type |-> m.type, loc |-> m.loc, text |-> m.text] : m \in Range(matches[1])}
              = {s \in Sites(data, <<>>) :
                    Includes(toLowerCase(s.text), toLowerCase(query))}
        /\ \A i, j \in 1..Len(matches[1]) :
              (i # j) => <<matches[1][i].type, matches[1][i].loc>>
                            # <<matches[1][j].type, matches[1][j].loc>>

\* A query with an upper-case letter finds a key and a leaf that are not
\* lower case and reports them as written.
C6_Witness ==
    /\ SearchJsonCalled
    /\ ~caseSensitive
    /\ query # toLowerCase(query)
    /\ \E i \in 1..Len(matches[1]) :
          matches[1][i].type = "key" /\ matches[1][i].text # toLowerCase(matches[1][i].text)
    /\ \E i \in 1..Len(matches[1]) :
          matches[1][i].type = "value" /\ matches[1][i].text # toLowerCase(matches[1][i].text)

\* a strictly precedes b in lexicographic order; a proper prefix comes first.
RECURSIVE LocBefore(_, _)
LocBefore(a, b) ==
    IF b = <<>> THEN FALSE
    ELSE IF a = <<>> THEN TRUE
    ELSE IF a[1] # b[1] THEN a[1] < b[1]
    ELSE LocBefore(Tail(a), Tail(b))

\* C7: the matches are in document order: by entry / element position, the
\* key match of an entry before every match inside the entry's value.
C7_DocumentOrder ==
    SearchJsonCalled =>
        \A i, j \in 1..Len(matches[1]) :
            i < j =>
                \/ LocBefore(matches[1][i].loc, matches[1][j].loc)
                \/ /\ matches[1][i].loc = matches[1][j].loc
                   /\ matches[1][i].type = "key"
                   /\ matches[1][j].type = "value"

\* A key match, then a match inside that entry's value, then a match in a
\* later entry.
C7_Witness ==
    /\ SearchJsonCalled
    /\ query # <<>>
    /\ \E i, j, k \in 1..Len(matches[1]) :
          /\ i < j /\ j < k
          /\ matches[1][i].type = "key"
          /\ Len(matches[1][j].loc) > Len(matches[1][i].loc)
          /\ SubSeq(matches[1][j].loc, 1, Len(matches[1][i].loc)) = matches[1][i].loc
          /\ matches[1][k].loc[1] > matches[1][i].loc[1]

----------------------------------------------------------------------------
(* Properties of key sorting *)

\* C8: sortObjectKeys(sortObjectKeys(v)) = sortObjectKeys(v), key order included.
C8_SortIdempotent ==
    resorted # <<>> => resorted[1] = sorted[1]

\* The first call reordered keys that compare equal with others present.
C8_Witness ==
    /\ resorted # <<>>
    /\ sorted[1] # data
    /\ data.t = "object"
    /\ \E i, j \in 1..Len(data.v) :
          i # j /\ localeCompareBase(data.v[i][1], data.v[j][1]) = 0

\* a and b are the same value tree, whatever the order of object keys.
RECURSIVE SameTree(_, _)
SameTree(a, b) ==
    /\ a.t = b.t
    /\ IF IsLeaf(a) THEN a = b
       ELSE IF a.t = "array"
       THEN /\ Len(a.v) = Len(b.v)
            /\ \A i \in 1..Len(a.v) : SameTree(a.v[i], b.v[i])
       ELSE /\ Range(ObjectKeys(a.v)) = Range(ObjectKeys(b.v))
            /\ Len(a.v) = Len(b.v)
            /\ \A k \in Range(ObjectKeys(a.v)) : SameTree(MapGet(a.v, k), MapGet(b.v, k))

\* C9: sortObjectKeys(v) is the same value tree as v: no key dropped, added
\* or re-bound.
C9_SameValueTree ==
    sorted # <<>> => SameTree(data, sorted[1])

\* Every object of a value, at every depth.
RECURSIVE ObjectsIn(_)
ObjectsIn(value) ==
    IF IsLeaf(value) THEN {}
    ELSE IF value.t = "array"
    THEN UNION {ObjectsIn(value.v[i]) : i \in 1..Len(value.v)}
    ELSE {value} \cup UNION {ObjectsIn(value.v[i][2]) : i \in 1..Len(value.v)}

\* C10: every object of the result enumerates its keys in ascending
\* case-insensitive collation order.
C10_KeysAscending ==
    sorted # <<>> =>
        \A o \in ObjectsIn(sorted[1]) :
            \A i, j \in 1..Len(o.v) :
                i < j => localeCompareBase(o.v[i][1], o.v[j][1]) <= 0

----------------------------------------------------------------------------
(* Properties of key sorting on objects in memory *)

\* The addresses reachable from a value, following at most fuel references.
RECURSIVE Reach(_, _, _)
Reach(heap, value, fuel) ==
    IF value.t # "ref" \/ fuel = 0 THEN {}
    ELSE LET cell == heap[value.a]
             kids == IF cell.t = "array"
                     THEN {cell.v[i] : i \in 1..Len(cell.v)}
                     ELSE {cell.v[i][2] : i \in 1..Len(cell.v)}
         IN  {value.a} \cup UNION {Reach(heap, k, fuel - 1) : k \in kids}

\* The value tree a reference stands for.
RECURSIVE Unload(_, _)
Unload(heap, value) ==
    IF value.t # "ref" THEN value
    ELSE LET cell == heap[value.a]
         IN  IF cell.t = "array"
             THEN JArr([i \in 1..Len(cell.v) |-> Unload(heap, cell.v[i])])
             ELSE JObj([i \in 1..Len(cell.v) |-> <<cell.v[i][1], Unload(heap, cell.v[i][2])>>])

\* The model on objects in memory computes the value the model on value
\* trees computes.
MemoryAgreesWithValue ==
    /\ Unload(mem.heap, mem.val) = data
    /\ memAfter # <<>> => Unload(memAfter[1].heap, memAfter[1].val) = sorted[1]

\* C11: sortObjectKeys leaves every object of its argument exactly as it was,
\* and no array or object reachable from its result is an array or object of
\* the argument.
C11_InputUntouched ==
    memAfter # <<>> =>
        /\ Len(memAfter[1].heap) >= Len(mem.heap)
        /\ \A a \in 1..Len(mem.heap) : memAfter[1].heap[a] = mem.heap[a]
        /\ Reach(memAfter[1].heap, memAfter[1].val, Len(memAfter[1].heap))
               \cap (1..Len(mem.heap)) = {}

\* sortObjectKeys has run on an object that holds an object inside an array.
C11_Witness ==
    /\ memAfter # <<>>
    /\ data.t = "object"
    /\ Len(mem.heap) >= 3
    /\ Len(memAfter[1].heap) = 2 * Len(mem.heap)

----------------------------------------------------------------------------
(* Properties of the export converters *)

\* The export dialog shows the result of converting data to format.
Exported(format) ==
    /\ exportContent # <<>>
    /\ selectedFormat = format

IsText(str) == \A i \in 1..Len(str) : \E j \in 1..Len(CodeUnits) : CodeUnits[j] = str[i]

\* C12: jsonToCsv fails, with an error message and no csv, exactly when its
\* argument is neither an array nor an object, and succeeds with a csv text
\* for every array and every object; jsonToYaml and jsonToXml return a text
\* for every value.
C12_CsvFailsOnlyOnPrimitives ==
    /\ Exported("csv") =>
           /\ ~exportContent[1].threw
           /\ exportContent[1].success <=> data.t \in {"array", "object"}
           /\ exportContent[1].success =>
                  /\ exportContent[1].content # <<>>
                  /\ IsText(exportContent[1].content[1])
           /\ ~exportContent[1].success =>
                  /\ exportContent[1].content = <<>>
                  /\ exportContent[1].error # <<>>
                  /\ exportContent[1].error[1] # <<>>
    /\ (Exported("yaml") \/ Exported("xml")) =>
           /\ ~exportContent[1].threw
           /\ exportContent[1].success
           /\ exportContent[1].content # <<>>
           /\ exportContent[1].content[1] # <<>>
           /\ IsText(exportContent[1].content[1])

\* The cells of a CSV text: rows split at line breaks outside quotes, cells
\* at commas outside quotes.  With raw = FALSE the quoting is undone, with
\* raw = TRUE each cell is the text as written.
RECURSIVE ParseCsv(_, _, _, _, _, _, _)
ParseCsv(text, i, raw, quoted, cell, row, rows) ==
    IF i > Len(text) THEN Append(rows, Append(row, cell))
    ELSE LET c == text[i]
             kept == IF raw THEN Append(cell, c) ELSE cell
         IN  IF quoted /\ c = "\"" /\ i < Len(text) /\ text[i + 1] = "\""
             THEN ParseCsv(text, i + 2, raw, TRUE,
                           IF raw THEN cell \o <<"\"", "\"">> ELSE Append(cell, c), row, rows)
             ELSE IF c = "\""
             THEN ParseCsv(text, i + 1, raw, ~quoted, kept, row, rows)
             ELSE IF ~quoted /\ c = ","
             THEN ParseCsv(text, i + 1, raw, FALSE, <<>>, Append(row, cell), rows)
             ELSE IF ~quoted /\ c = "\n"
             THEN ParseCsv(text, i + 1, raw, FALSE, <<>>, <<>>, Append(rows, Append(row, cell)))
             ELSE ParseCsv(text, i + 1, raw, quoted, Append(cell, c), row, rows)

CsvCells(text) == ParseCsv(text, 1, FALSE, FALSE, <<>>, <<>>, <<>>)

CsvRawCells(text) == ParseCsv(text, 1, TRUE, FALSE, <<>>, <<>>, <<>>)

\* The elements jsonToCsv turns into rows.
CsvRowsOf(d) == IF d.t = "array" THEN d.v ELSE <<d>>

\* The text a leaf is shown as: the literal text of a primitive, "null" for
\* null, the JSON text of an array.
LeafCellText(value) ==
    IF value.t = "array" THEN JsonStringify(value) ELSE StringOfPrimitive(value)

\* The leaves reached through the nested objects below entries, each with
\* its dot-joined key path.
RECURSIVE LeafCellsBelow(_, _, _)
LeafCellsBelow(entries, i, prefix) ==
    IF i > Len(entries) THEN <<>>
    ELSE LET path == IF prefix = <<>> THEN entries[i][1]
                     ELSE prefix \o <<".">> \o entries[i][1]
             value == entries[i][2]
         IN  (IF value.t = "object" THEN LeafCellsBelow(value.v, 1, path)
              ELSE << <<path, LeafCellText(value)>> >>)
             \o LeafCellsBelow(entries, i + 1, prefix)

\* The <<column name, text>> pairs of one element.
ElementCells(item) ==
    IF IsLeaf(item) THEN << <<ValueKey, StringOfPrimitive(item)>> >>
    ELSE LeafCellsBelow(item.v, 1, <<>>)

ColumnNames(d) ==
    UNION {{ElementCells(CsvRowsOf(d)[r])[k][1] : k \in 1..Len(ElementCells(CsvRowsOf(d)[r]))}
              : r \in 1..Len(CsvRowsOf(d))}

DefinesColumn(item, name) ==
    \E k \in 1..Len(ElementCells(item)) : ElementCells(item)[k][1] = name

\* header lists the names in ascending order, each once.
IsSortedUnion(header, names) ==
    /\ Range(header) = names
    /\ \A i, j \in 1..Len(header) : i < j => CodeLess(header[i], header[j])

\* C13: for a non-empty array the header row is the sorted union of the
\* column names of its elements, every data row has one cell per header
\* column, and the cell of a column the element does not define is empty.
C13_HeaderAndCells ==
    (Exported("csv") /\ data.t = "array" /\ data.v # <<>> /\ ColumnNames(data) # {}) =>
        /\ exportContent[1].success
        /\ LET table == CsvCells(exportContent[1].content[1])
           IN  /\ Len(table) = Len(data.v) + 1
               /\ IsSortedUnion(table[1], ColumnNames(data))
               /\ \A r \in 1..Len(data.v) :
                     /\ Len(table[r + 1]) = Len(table[1])
                     /\ \A c \in 1..Len(table[1]) :
                           ~DefinesColumn(data.v[r], table[1][c])
                               => table[r + 1][c] = <<>>

\* C14: every leaf reached through nested objects has a cell in the column
\* named by its dot-joined key path, and the cell holds the leaf's text.
C14_LeafCells ==
    (Exported("csv") /\ IsContainer(data) /\ ColumnNames(data) # {}) =>
        /\ exportContent[1].success
        /\ LET table == CsvCells(exportContent[1].content[1])
               rows == CsvRowsOf(data)
           IN  \A r \in 1..Len(rows) :
                   \A k \in 1..Len(ElementCells(rows[r])) :
                       \E c \in 1..Len(table[1]) :
                           /\ table[1][c] = ElementCells(rows[r])[k][1]
                           /\ r + 1 <= Len(table)
                           /\ c <= Len(table[r + 1])
                           /\ table[r + 1][c] = ElementCells(rows[r])[k][2]

\* A value as the claim has it written: wrapped in double quotes, inner
\* quotes doubled, when it holds a comma, a double quote or a line break,
\* and unchanged otherwise.
CsvQuoted(val) ==
    IF \E i \in 1..Len(val) : val[i] \in {",", "\"", "\n"}
    THEN <<"\"">> \o Join([i \in 1..Len(val) |-> IF val[i] = "\"" THEN <<"\"", "\"">> ELSE <<val[i]>>], <<>>)
         \o <<"\"">>
    ELSE val

\* C15: every header name and every cell is written wrapped in quotes with
\* inner quotes doubled when it holds a comma, a quote or a line break, and
\* unchanged otherwise; so the csv has one row per element after the header,
\* every row splits at its commas outside quotes into as many cells as the
\* header row, and the header cells read back as the column names.
C15_QuotingKeepsCells ==
    (Exported("csv") /\ exportContent[1].success) =>
        LET raw == CsvRawCells(exportContent[1].content[1])
            cells == CsvCells(exportContent[1].content[1])
        IN  /\ Len(raw) = Len(CsvRowsOf(data)) + 1
            /\ \A r \in 1..Len(raw) :
                  /\ Len(raw[r]) = Len(raw[1])
                  /\ \A c \in 1..Len(raw[r]) : raw[r][c] = CsvQuoted(cells[r][c])
            /\ ColumnNames(data) # {} =>
                  /\ Range(cells[1]) = ColumnNames(data)
                  /\ Len(cells[1]) = Cardinality(ColumnNames(data))

\* A csv of two rows whose header has a name with a comma and a quote, with
\* a cell that holds a comma and a quote and a cell that holds a line break.
C15_Witness ==
    /\ Exported("csv")
    /\ exportContent[1].success
    /\ Len(CsvRowsOf(data)) = 2
    /\ LET cells == CsvCells(exportContent[1].content[1])
       IN  /\ \E c \in 1..Len(cells[1]) : HasChar(cells[1][c], ",") /\ HasChar(cells[1][c], "\"")
           /\ \E c \in 1..Len(cells[2]) : HasChar(cells[2][c], ",") /\ HasChar(cells[2][c], "\"")
           /\ \E c \in 1..Len(cells[3]) : HasChar(cells[3][c], "\n")

\* The strings the claim lists as quoted: empty, holding a line break, a ':'
\* or a '#', starting or ending with a space, made of digits and dots only,
\* or one of the seven words in any mix of upper and lower case.
SameIgnoringCase(a, b) ==
    /\ Len(a) = Len(b)
    /\ \A i \in 1..Len(a) : ToLowerChar(a[i]) = ToLowerChar(b[i])

YamlListed(str) ==
    \/ Len(str) = 0
    \/ \E i \in 1..Len(str) : str[i] \in {"\n", ":", "#"}
    \/ Len(str) > 0 /\ (str[1] = " " \/ str[Len(str)] = " ")
    \/ Len(str) > 0 /\ \A i \in 1..Len(str) : str[i] \in Range(Digits) \cup {"."}
    \/ \E word \in {<<"t", "r", "u", "e">>, <<"f", "a", "l", "s", "e">>, <<"n", "u", "l", "l">>, <<"y", "e", "s">>, <<"n", "o">>, <<"o", "n">>, <<"o", "f", "f">>} :
           SameIgnoringCase(str, word)

\* The YAML text of a primitive as the claim has it.
YamlScalar(value) ==
    IF value.t = "null" THEN <<"n", "u", "l", "l">>
    ELSE IF value.t = "boolean" THEN (IF value.v THEN <<"t", "r", "u", "e">> ELSE <<"f", "a", "l", "s", "e">>)
    ELSE IF value.t = "number" THEN NumberToString(value.v)
    ELSE IF YamlListed(value.v) THEN QuoteJsonString(value.v)
    ELSE value.v

\* C16: jsonToYaml writes a string as a JSON string literal exactly when it
\* is one of the listed strings and bare otherwise; booleans, numbers and
\* null are written as bare literals.  Checked for a value at the top level,
\* in an array and in an object.
C16_QuotedIffListed ==
    Exported("yaml") =>
        LET text == exportContent[1].content[1]
        IN  /\ IsLeaf(data) => text = YamlScalar(data)
            /\ (data.t = "array" /\ data \in YamlDocs) =>
                   text = <<"\n", "-", " ">> \o YamlScalar(data.v[1]) \o <<"\n", "-", " ">> \o YamlScalar(data.v[2])
            /\ (data.t = "object" /\ data \in YamlDocs) =>
                   text = data.v[1][1] \o <<":", " ">> \o YamlScalar(data.v[1][2]) \o <<"\n">>
                          \o data.v[2][1] \o <<":", " ">> \o YamlScalar(data.v[2][2])

\* A string with a '#' and none of the other listed properties was written
\* quoted.
C16_Witness ==
    /\ Exported("yaml")
    /\ data.t = "string"
    /\ HasChar(data.v, "#")
    /\ ~HasChar(data.v, ":") /\ ~HasChar(data.v, "\n") /\ ~HasChar(data.v, " ")
    /\ exportContent[1].content[1] = <<"\"">> \o data.v \o <<"\"">>

\* A string that starts with '-' and goes on with a digit was written bare.
C16_BareMinus ==
    /\ Exported("yaml")
    /\ data = JStr(<<"-", "1">>)
    /\ exportContent[1].content[1] = <<"-", "1">>

\* The element name as the claim has it: every character outside
\* [A-Za-z0-9_-] replaced by '_', and an extra '_' put in front when the
\* result does not start with a letter or an underscore.
PrefixedTag(name) ==
    LET cleaned == [i \in 1..Len(name) |->
                       IF name[i] \in Range(LowerLetters) \cup Range(UpperLetters)
                                      \cup Range(Digits) \cup {"_", "-"}
                       THEN name[i] ELSE "_"]
    IN  IF cleaned[1] \in Range(LowerLetters) \cup Range(UpperLetters) \cup {"_"}
        THEN cleaned
        ELSE <<"_">> \o cleaned

\* C17: the element jsonToXml writes for a key is named by the key with
\* every character outside [A-Za-z0-9_-] replaced by '_' and, when that does
\* not start with a letter or an underscore, with an extra '_' in front of
\* all its characters.
C17_TagPrefixed ==
    (Exported("xml") /\ data.t = "object" /\ Len(data.v) = 1 /\ data.v[1][1] \in TagNames
       /\ data.v[1][2] = JNum(1)) =>
        exportContent[1].content[1] =
            XmlDeclaration \o <<"\n", "<", "r", "o", "o", "t", ">", "\n", " ", " ", "<">> \o PrefixedTag(data.v[1][1]) \o <<">", "1", "<", "/">>
            \o PrefixedTag(data.v[1][1]) \o <<">", "\n", "<", "/", "r", "o", "o", "t", ">">>

\* The five entities, and what the claim has each character written as.
XmlEntities == {<<"&", "a", "m", "p", ";">>, <<"&", "l", "t", ";">>, <<"&", "g", "t", ";">>, <<"&", "q", "u", "o", "t", ";">>, <<"&", "a", "p", "o", "s", ";">>}

EntityOf(c) ==
    IF c = "&" THEN <<"&", "a", "m", "p", ";">>
    ELSE IF c = "<" THEN <<"&", "l", "t", ";">>
    ELSE IF c = ">" THEN <<"&", "g", "t", ";">>
    ELSE IF c = "\"" THEN <<"&", "q", "u", "o", "t", ";">>
    ELSE IF c = "'" THEN <<"&", "a", "p", "o", "s", ";">>
    ELSE <<c>>

\* The text between <root> and </root> of the export of a string.
RootBody(text) ==
    SubSeq(text, Len(XmlDeclaration) + Len(<<"\n", "<", "r", "o", "o", "t", ">">>) + 1, Len(text) - Len(<<"<", "/", "r", "o", "o", "t", ">">>))

\* C18: the text of a string is written with each of & < > " ' replaced by
\* its entity, every original character escaped exactly once; the written
\* text holds no raw < > " ' and every & in it starts one of the five
\* entities.
C18_EscapedOnce ==
    (Exported("xml") /\ data.t = "string") =>
        LET text == exportContent[1].content[1]
            body == RootBody(text)
        IN  /\ text = XmlDeclaration \o <<"\n", "<", "r", "o", "o", "t", ">">> \o body \o <<"<", "/", "r", "o", "o", "t", ">">>
            /\ body = Join([i \in 1..Len(data.v) |-> EntityOf(data.v[i])], <<>>)
            /\ \A i \in 1..Len(body) : body[i] \notin {"<", ">", "\"", "'"}
            /\ \A i \in 1..Len(body) :
                   body[i] = "&" =>
                       \E e \in XmlEntities :
                           /\ i + Len(e) - 1 <= Len(body)
                           /\ SubSeq(body, i, i + Len(e) - 1) = e

\* A string with an '&' after a '<' has been exported as XML.
C18_Witness ==
    /\ Exported("xml")
    /\ data.t = "string"
    /\ Len(data.v) = 3
    /\ data.v[1] = "<" /\ data.v[2] = "&" /\ data.v[3] = "a"
    /\ RootBody(exportContent[1].content[1]) = <<"&", "l", "t", ";", "&", "a", "m", "p", ";", "a">>

----------------------------------------------------------------------------
(* Properties of error parsing *)

NoPatternMatches == \A k \in 1..PatternCount : ~PatternMatches(k, err)

\* C19: parseJsonError returns a message and a hint that are not empty; when
\* the diagnostic matches no pattern the result is the fallback "Invalid JSON
\* syntax" with its own hint, whatever the text around an extracted position
\* looks like.
C19_FallbackUntouched ==
    parsedError # <<>> =>
        /\ parsedError[1].message # <<>>
        /\ parsedError[1].hint # <<>>
        /\ NoPatternMatches =>
               /\ parsedError[1].message = <<"I", "n", "v", "a", "l", "i", "d", " ", "J", "S", "O", "N", " ", "s", "y", "n", "t", "a", "x">>
               /\ parsedError[1].hint = <<"C", "h", "e", "c", "k", " ", "f", "o", "r", " ", "m", "i", "s", "s", "i", "n", "g", " ", "c", "o", "m", "m", "a", "s", ",", " ", "q", "u", "o", "t", "e", "s", ",", " ", "c", "o", "l", "o", "n", "s", ",", " ", "o", "r", " ", "b", "r", "a", "c", "k", "e", "t", "s", ".">>

\* No pattern matched, a position was extracted, and the text before it ends
\* with a comma while the character at it is a closing brace.
C19_Witness ==
    /\ parsedError # <<>>
    /\ NoPatternMatches
    /\ parsedError[1].position # <<>>
    /\ parsedError[1].position[1] < Len(jsonString)
    /\ jsonString[parsedError[1].position[1] + 1] = "}"
    /\ parsedError[1].position[1] > 0
    /\ jsonString[parsedError[1].position[1]] = ","

\* The diagnostic is "Unexpected token T in JSON at position p", T being the
\* character of the input at p.
ReportsTokenAt(p) ==
    /\ p < Len(jsonString)
    /\ err = <<"U", "n", "e", "x", "p", "e", "c", "t", "e", "d", " ", "t", "o", "k", "e", "n", " ">> \o <<jsonString[p + 1]>>
                      \o <<" ", "i", "n", " ", "J", "S", "O", "N", " ", "a", "t", " ", "p", "o", "s", "i", "t", "i", "o", "n", " ">> \o NumberToString(p)

\* The input before p ends with a comma and then whitespace only.
RECURSIVE CommaThenSpace(_, _)
CommaThenSpace(input, p) ==
    /\ p > 0
    /\ \/ input[p] = ","
       \/ input[p] \in {" ", "\n", "\t"} /\ CommaThenSpace(input, p - 1)

\* C20: when the diagnostic reports the unexpected token at position p, the
\* character at p is '}' or ']' and the input before p ends with a comma and
\* optional whitespace, the message is "Extra comma before closing brace"
\* (for '}') or "... bracket" (for ']') and the position returned is p.
C20_TrailingComma ==
    parsedError # <<>> =>
        \A p \in 0..Len(jsonString) :
            (/\ ReportsTokenAt(p)
             /\ jsonString[p + 1] \in {"}", "]"}
             /\ CommaThenSpace(jsonString, p)) =>
                /\ parsedError[1].position = <<p>>
                /\ parsedError[1].message =
                       IF jsonString[p + 1] = "}"
                       THEN <<"E", "x", "t", "r", "a", " ", "c", "o", "m", "m", "a", " ", "b", "e", "f", "o", "r", "e", " ", "c", "l", "o", "s", "i", "n", "g", " ", "b", "r", "a", "c", "e">>
                       ELSE <<"E", "x", "t", "r", "a", " ", "c", "o", "m", "m", "a", " ", "b", "e", "f", "o", "r", "e", " ", "c", "l", "o", "s", "i", "n", "g", " ", "b", "r", "a", "c", "k", "e", "t">>

\* The trailing comma of {"a":1,} was reported at the index of '}'.
C20_Witness ==
    /\ parsedError # <<>>
    /\ jsonString = <<"{", "\"", "a", "\"", ":", "1", ",", "}">>
    /\ ReportsTokenAt(7)
    /\ parsedError[1].position = <<7>>
    /\ parsedError[1].message = <<"E", "x", "t", "r", "a", " ", "c", "o", "m", "m", "a", " ", "b", "e", "f", "o", "r", "e", " ", "c", "l", "o", "s", "i", "n", "g", " ", "b", "r", "a", "c", "e">>

\* A trailing comma with more whitespace after it than analyzeContext looks
\* at was reported.
C20_WideGap ==
    /\ parsedError # <<>>
    /\ \E p \in 32..Len(jsonString) :
          /\ ReportsTokenAt(p)
          /\ jsonString[p + 1] = "]"
          /\ CommaThenSpace(jsonString, p)
          /\ \A i \in (p - 30)..p : jsonString[i] = " "

\* The 0-based indexes of the newline characters of input[0:position]
NewlinesBefore(str, p) ==
    {i \in 0..(Len(str) - 1) : i < p /\ str[i + 1] = "\n"}

\* The index of the last newline before position, -1 when there is none
LastNewlineBefore(str, p) ==
    IF NewlinesBefore(str, p) = {} THEN -1 ELSE SetMax(NewlinesBefore(str, p))

\* line and column are defined exactly when position is
LocatedIffPositioned ==
    parsedError # <<>> =>
        /\ parsedError[1].line # <<>> <=> parsedError[1].position # <<>>
        /\ parsedError[1].column # <<>> <=> parsedError[1].position # <<>>

C24_InsideSecondLine ==
    /\ parsedError # <<>>
    /\ parsedError[1].position # <<>>
    /\ parsedError[1].position[1] < Len(jsonString)
    /\ parsedError[1].line = <<2>>
    /\ parsedError[1].column[1] > 1

C24_NoPosition ==
    /\ parsedError # <<>>
    /\ parsedError[1].position = <<>>
    /\ parsedError[1].line = <<>>
    /\ parsedError[1].column = <<>>

\* The key of the "key": that ends the (up to 50) characters before p
KeyBefore(p) ==
    QuotedKeyBeforeColon(Substring(jsonString,
                                   IF p - KeyWindow > 0 THEN p - KeyWindow ELSE 0, p))

MissingValueAfter(key) ==
    <<"M", "i", "s", "s", "i", "n", "g", " ", "v", "a", "l", "u", "e", " ", "a", "f", "t", "e", "r", " ", "k", "e", "y", " ", "\"">> \o key \o <<"\"">>

\* The diagnostic reports one of tokens at p, after a quoted key and a colon:
\* the message names the key.
MissingValueReported(tokens) ==
    parsedError # <<>> =>
        \A p \in 0..Len(jsonString) :
            (/\ ReportsTokenAt(p)
             /\ jsonString[p + 1] \in tokens
             /\ KeyBefore(p) # <<>>) =>
                parsedError[1].message = MissingValueAfter(KeyBefore(p)[1])

\* C25: when the diagnostic reports an unexpected '}' or ',' at position p
\* and the (up to 50) characters before p end with "key": and optional
\* whitespace, the message is: Missing value after key "key".
C25_MissingValue == MissingValueReported({"}", ","})

\* For the ',' token alone the message names the key, as in {"a":,
C25_CommaToken == MissingValueReported({","})

C25_CommaWitness ==
    /\ parsedError # <<>>
    /\ ReportsTokenAt(5)
    /\ jsonString[6] = ","
    /\ KeyBefore(5) = << <<"a">> >>
    /\ parsedError[1].message = MissingValueAfter(<<"a">>)

\* {"a":} reported at the index of '}'
C25_BraceCase ==
    /\ parsedError # <<>>
    /\ jsonString = <<"{", "\"", "a", "\"", ":", "}">>
    /\ ReportsTokenAt(5)
    /\ parsedError[1].message = <<"E", "x", "t", "r", "a", " ", "c", "o", "m", "m", "a", " ", "b", "e", "f", "o", "r", "e", " ", "c", "l", "o", "s", "i", "n", "g", " ", "b", "r", "a", "c", "e">>

Markers == {"▶", "◀"}

IsMarker(c) == c \in Markers

NotMarker(c) == c \notin Markers

Dots == <<".", ".", ".">>

\* input[max(0, p - 30) .. min(length, p + 30))
SnippetWindow(p) ==
    Substring(jsonString,
              IF p - ContextWindow > 0 THEN p - ContextWindow ELSE 0,
              IF Len(jsonString) < p + ContextWindow
              THEN Len(jsonString) ELSE p + ContextWindow)

\* What stands between the first ▶ and the next ◀ of the snippet
BetweenMarkers(s) ==
    LET from == SetMin({i \in 1..Len(s) : s[i] = "▶"})
        to == SetMin({i \in (from + 1)..Len(s) : s[i] = "◀"})
    IN  SubSeq(s, from + 1, to - 1)

\* C30: for a position inside the input, the snippet without the optional
\* leading and trailing "..." and without the two markers is the window
\* input[max(0, position - 30) .. min(length, position + 30)), each character
\* once and in order, and the character between the markers is
\* input[position].
C30_SnippetIsWindow ==
    (errorSnippet # <<>> /\ parsedError[1].position[1] < Len(jsonString)) =>
        LET p == parsedError[1].position[1]
            s == errorSnippet[1]
        IN  /\ Len(SelectSeq(s, IsMarker)) = 2
            /\ BetweenMarkers(s) = <<jsonString[p + 1]>>
            /\ \E pre \in {<<>>, Dots}, suf \in {<<>>, Dots} :
                  SelectSeq(s, NotMarker) = pre \o SnippetWindow(p) \o suf

\* The snippet of {"a":1,} for position 7: the brace is shown twice.
C30_BraceTwice ==
    /\ errorSnippet # <<>>
    /\ jsonString = <<"{", "\"", "a", "\"", ":", "1", ",", "}">>
    /\ parsedError[1].position = <<7>>
    /\ errorSnippet[1] = <<"{", "\"", "a", "\"", ":", "1", ",">> \o <<"▶", "}", "◀", "}">>

----------------------------------------------------------------------------
(* Properties of the XML export: element names *)

\* The index of the first character of text from i on that is in stops
IndexOfAny(str, i, stops) ==
    SetMin({j \in i..(Len(str) + 1) : j > Len(str) \/ str[j] \in stops})

\* The tag that starts with the '<' at index i: a closing tag </name>, a
\* self-closing tag <name .../> or an opening tag <name ...>.
TagAt(str, i) ==
    LET close == IndexOfAny(str, i, {">"})
    IN  IF str[i + 1] = "/"
        THEN [kind |-> "close", name |-> SubSeq(str, i + 2, close - 1)]
        ELSE [kind |-> IF str[close - 1] = "/" THEN "self" ELSE "open",
              name |-> SubSeq(str, i + 1, IndexOfAny(str, i + 1, {" ", "/", ">"}) - 1)]

\* The tags of an XML text in order, the <?xml ...?> declaration left out
TagList(str) ==
    LET starts == {i \in 1..(Len(str) - 1) : str[i] = "<" /\ str[i + 1] # "?"}
        nth(k) == CHOOSE i \in starts : Cardinality({j \in starts : j < i}) = k - 1
    IN  [k \in 1..Cardinality(starts) |-> TagAt(str, nth(k))]

\* Every opening tag is closed by a closing tag of the same name, properly
\* nested; open holds the names that await their closing tag.
RECURSIVE TagsBalanced(_, _, _)
TagsBalanced(tags, i, open) ==
    IF i > Len(tags) THEN open = <<>>
    ELSE IF tags[i].kind = "self" THEN TagsBalanced(tags, i + 1, open)
    ELSE IF tags[i].kind = "open"
    THEN TagsBalanced(tags, i + 1, <<tags[i].name>> \o open)
    ELSE /\ open # <<>>
         /\ Head(open) = tags[i].name
         /\ TagsBalanced(tags, i + 1, Tail(open))

NameStartChars == Range(LowerLetters) \cup Range(UpperLetters) \cup {"_"}

NameChars == NameStartChars \cup Range(Digits) \cup {"-"}

IsElementName(name) ==
    /\ name # <<>>
    /\ name[1] \in NameStartChars
    /\ \A i \in 1..Len(name) : name[i] \in NameChars

\* C29: every element name jsonToXml writes, for the root and for every key
\* at any depth, the empty key included, is not empty, starts with a letter
\* or an underscore and holds only characters of [A-Za-z0-9_-]; every
\* opening tag is closed by a tag of the same name or is self-closing.
C29_ElementNames ==
    Exported("xml") =>
        LET tags == TagList(exportContent[1].content[1])
        IN  /\ \A i \in 1..Len(tags) : IsElementName(tags[i].name)
            /\ TagsBalanced(tags, 1, <<>>)

\* The same for the documents none of whose keys is the empty string
RECURSIVE HasEmptyKey(_)
HasEmptyKey(value) ==
    CASE value.t = "object" ->
           \E i \in 1..Len(value.v) : value.v[i][1] = <<>> \/ HasEmptyKey(value.v[i][2])
      [] value.t = "array" -> \E i \in 1..Len(value.v) : HasEmptyKey(value.v[i])
      [] OTHER -> FALSE

C29_NamedKeys ==
    (Exported("xml") /\ ~HasEmptyKey(data)) =>
        LET tags == TagList(exportContent[1].content[1])
        IN  /\ \A i \in 1..Len(tags) : IsElementName(tags[i].name)
            /\ TagsBalanced(tags, 1, <<>>)

\* {"": 1} exported: the element for the key has no name.
C29_EmptyName ==
    /\ Exported("xml")
    /\ data = JObj(<< <<(<<>>), JNum(1)>> >>)
    /\ exportContent[1].content[1] =
          XmlDeclaration \o <<"\n", "<", "r", "o", "o", "t", ">", "\n", " ", " ", "<", ">", "1", "<", "/", ">", "\n", "<", "/", "r", "o", "o", "t", ">">>

\* A nested document with a key that needs cleaning, exported with every
\* name well formed
C29_NestedNames ==
    /\ Exported("xml")
    /\ data.t = "array"
    /\ Len(TagList(exportContent[1].content[1])) >= 8
    /\ \E i \in 1..Len(TagList(exportContent[1].content[1])) :
          TagList(exportContent[1].content[1])[i].name = <<"_", "_">>

----------------------------------------------------------------------------
(* The JsonFormatter component: src/unnamed/part_002.  Its state is the     *)
(* useState values; an event handler, a FileReader callback or the          *)
(* continuation of a fetch is one step.                                     *)

\* At most MaxLoads loads are started in a behaviour.
MaxLoads == 2

\* String.prototype.endsWith
EndsWith(str, suffix) ==
    /\ Len(suffix) <= Len(str)
    /\ SubSeq(str, Len(str) - Len(suffix) + 1, Len(str)) = suffix

\* The values whose texts are typed, pasted, uploaded or fetched, the last
\* one an excerpt of the first sample document
SampleData == JObj(<< <<(<<"a", "g", "e">>), JNum(30)>> >>)

UiDocs == {JNum(i) : i \in 1..MaxLoads} \cup {SampleData}

\* The content of the file or of the response of the i-th load started: each
\* load has a content of its own.
LoadText(i) == JsonStringify(JNum(i))

\* What is typed or pasted: nothing, a JSON text, a text that is not JSON
TypedTexts == {<<>>, JsonStringify(JNum(1)), <<"{">>}

\* result.success: the text is not blank and JSON.parse accepts it.  On the
\* texts above JSON.parse accepts exactly those JSON.stringify wrote.
ResultSuccess(str) ==
    /\ trim(str) # <<>>
    /\ \E d \in UiDocs : JsonStringify(d) = str

MaxFileSize == 10485760

JsonSuffix == <<".", "j", "s", "o", "n">>

JsonMimeType == <<"a", "p", "p", "l", "i", "c", "a", "t", "i", "o", "n", "/", "j", "s", "o", "n">>

\* The files offered to the file input: [name, type, size]
FileNames == {<<"a", ".", "j", "s", "o", "n">>, <<"a", ".", "J", "S", "O", "N">>}

FileTypes == {JsonMimeType, <<>>}

FileSizes == {MaxFileSize, MaxFileSize + 1}

Files ==
    [name : FileNames, type : FileTypes, size : FileSizes]

\* What is typed into the URL input: nothing, blanks, a word, a URL within
\* blanks
UrlTexts == {<<>>, <<" ">>, <<"x">>, <<" ", "h", "t", "t", "p", ":", "/", "/", "a", " ">>}

\* new URL(str) does not throw: str starts with a scheme, letters before a
\* colon, and names a host after "//"
IsUrl(str) ==
    \E k \in 2..Len(str) :
        /\ str[k] = ":"
        /\ \A j \in 1..(k - 1) : IsLetter(str[j])
        /\ Len(str) >= k + 3
        /\ str[k + 1] = "/"
        /\ str[k + 2] = "/"
        /\ \A j \in (k + 3)..Len(str) : ~IsWhitespace(str[j])

\* The messages of the errors a fetch ends with: fetch() rejected, or the
\* status was not 2xx
FetchErrors == {<<"F", "a", "i", "l", "e", "d", " ", "t", "o", " ", "f", "e", "t", "c", "h">>, <<"H", "T", "T", "P", " ", "4", "0", "4", ":", " ", "N", "o", "t", " ", "F", "o", "u", "n", "d">>}

FileTypeError == <<"P", "l", "e", "a", "s", "e", " ", "s", "e", "l", "e", "c", "t", " ", "a", " ", "J", "S", "O", "N", " ", "f", "i", "l", "e">>

FileSizeError == <<"F", "i", "l", "e", " ", "i", "s", " ", "t", "o", "o", " ", "l", "a", "r", "g", "e", ".", " ", "M", "a", "x", "i", "m", "u", "m", " ", "s", "i", "z", "e", " ", "i", "s", " ", "1", "0", "M", "B", ".">>

FileReadError == <<"F", "a", "i", "l", "e", "d", " ", "t", "o", " ", "r", "e", "a", "d", " ", "f", "i", "l", "e">>

NoUrlError == <<"P", "l", "e", "a", "s", "e", " ", "e", "n", "t", "e", "r", " ", "a", " ", "U", "R", "L">>

UrlFormatError == <<"I", "n", "v", "a", "l", "i", "d", " ", "U", "R", "L", " ", "f", "o", "r", "m", "a", "t">>

FetchErrorPrefix == <<"F", "a", "i", "l", "e", "d", " ", "t", "o", " ", "f", "e", "t", "c", "h", ":", " ">>

Pending(i) == i \in 1..Len(loads) /\ loads[i].status = "pending"

Started(loadKind) ==
    Append(loads, [kind |-> loadKind, text |-> LoadText(Len(loads) + 1),
                   status |-> "pending"])

Settled(i, outcome) == [loads EXCEPT ![i].status = outcome]

\* What the component's own steps leave alone
CoreUnchanged ==
    UNCHANGED <<inputVars, schemaVars, sortVars, errorVars,
                caller, query, caseSensitive, matches, selectedFormat, exportContent>>

\* <textarea onChange>: setInput(e.target.value)
InputChange ==
    \E str \in TypedTexts :
        /\ inputText' = str
        /\ lastKey' = ""
        /\ CoreUnchanged
        /\ UNCHANGED <<isLoading, showUrlInput, urlInput, loadError, loads,
                       searchQuery, showExportModal>>

\* handleClear
HandleClear ==
    /\ inputText' = <<>>
    /\ searchQuery' = <<>>
    /\ loadError' = <<>>
    /\ lastKey' = ""
    /\ CoreUnchanged
    /\ UNCHANGED <<isLoading, showUrlInput, urlInput, loads, showExportModal>>

\* handlePaste: the clipboard is read, or access to it is denied
HandlePaste ==
    /\ \/ \E str \in TypedTexts : inputText' = str /\ loadError' = <<>>
       \/ UNCHANGED <<inputText, loadError>>
    /\ lastKey' = ""
    /\ CoreUnchanged
    /\ UNCHANGED <<isLoading, showUrlInput, urlInput, loads, searchQuery, showExportModal>>

\* handleSampleChange: a sample is chosen, or the placeholder option
HandleSampleChange ==
    /\ \/ inputText' = JsonStringify(SampleData) /\ loadError' = <<>>
       \/ UNCHANGED <<inputText, loadError>>
    /\ lastKey' = ""
    /\ CoreUnchanged
    /\ UNCHANGED <<isLoading, showUrlInput, urlInput, loads, searchQuery, showExportModal>>

\* A variant of the checks of handleFileUpload without the size limit
FileAcceptedAnySize(file) ==
    EndsWith(file.name, JsonSuffix) \/ file.type = JsonMimeType

\* The checks of handleFileUpload: the file is read when neither returns
FileAccepted(file) ==
    /\ EndsWith(file.name, JsonSuffix) \/ file.type = JsonMimeType
    /\ ~(file.size > MaxFileSize)

\* handleFileUpload, the change event of the file input with a file chosen.
\* The Upload button that opens the file dialog is disabled while isLoading.
HandleFileUpload(file) ==
    /\ ~isLoading
    /\ IF ~(EndsWith(file.name, JsonSuffix) \/ file.type = JsonMimeType)
       THEN /\ loadError' = FileTypeError
            /\ UNCHANGED <<isLoading, loads>>
       ELSE IF ~FileAccepted(file)
       THEN /\ loadError' = FileSizeError
            /\ UNCHANGED <<isLoading, loads>>
       ELSE /\ Len(loads) < MaxLoads
            /\ isLoading' = TRUE
            /\ loadError' = <<>>
            /\ loads' = Started("file")
    /\ lastKey' = ""
    /\ CoreUnchanged
    /\ UNCHANGED <<inputText, showUrlInput, urlInput, searchQuery, showExportModal>>

FileInputChange == \E file \in Files : HandleFileUpload(file)

\* reader.onload
ReaderOnLoad(i) ==
    /\ Pending(i)
    /\ loads[i].kind = "file"
    /\ inputText' = loads[i].text
    /\ isLoading' = FALSE
    /\ loads' = Settled(i, "done")
    /\ lastKey' = ""
    /\ CoreUnchanged
    /\ UNCHANGED <<showUrlInput, urlInput, loadError, searchQuery, showExportModal>>

\* reader.onerror
ReaderOnError(i) ==
    /\ Pending(i)
    /\ loads[i].kind = "file"
    /\ loadError' = FileReadError
    /\ isLoading' = FALSE
    /\ loads' = Settled(i, "failed")
    /\ lastKey' = ""
    /\ CoreUnchanged
    /\ UNCHANGED <<inputText, showUrlInput, urlInput, searchQuery, showExportModal>>

ReaderSettles(i) == ReaderOnLoad(i) \/ ReaderOnError(i)

\* The URL button: setShowUrlInput(!showUrlInput)
ToggleUrlInput ==
    /\ showUrlInput' = ~showUrlInput
    /\ lastKey' = ""
    /\ CoreUnchanged
    /\ UNCHANGED <<inputText, isLoading, urlInput, loadError, loads, searchQuery,
                   showExportModal>>

\* <input type="url" onChange>: setUrlInput(e.target.value)
UrlInputChange ==
    \E str \in UrlTexts :
        /\ showUrlInput
        /\ urlInput' = str
        /\ lastKey' = ""
        /\ CoreUnchanged
        /\ UNCHANGED <<inputText, isLoading, showUrlInput, loadError, loads, searchQuery,
                       showExportModal>>

\* handleFetchUrl up to the call of fetch()
handleFetchUrl ==
    /\ IF trim(urlInput) = <<>>
       THEN /\ loadError' = NoUrlError
            /\ UNCHANGED <<isLoading, loads>>
       ELSE IF ~IsUrl(trim(urlInput))
       THEN /\ loadError' = UrlFormatError
            /\ UNCHANGED <<isLoading, loads>>
       ELSE /\ Len(loads) < MaxLoads
            /\ isLoading' = TRUE
            /\ loadError' = <<>>
            /\ loads' = Started("url")
    /\ CoreUnchanged
    /\ UNCHANGED <<inputText, showUrlInput, urlInput, searchQuery, showExportModal>>

\* The Fetch button, disabled while isLoading
FetchClick ==
    /\ showUrlInput
    /\ ~isLoading
    /\ handleFetchUrl
    /\ lastKey' = ""

\* handleUrlKeyDown with Enter: handleFetchUrl(), whatever isLoading is
UrlKeyDownEnter ==
    /\ showUrlInput
    /\ handleFetchUrl
    /\ lastKey' = "Enter"

\* handleUrlKeyDown with Escape
UrlKeyDownEscape ==
    /\ showUrlInput
    /\ showUrlInput' = FALSE
    /\ urlInput' = <<>>
    /\ loadError' = <<>>
    /\ lastKey' = "Escape"
    /\ CoreUnchanged
    /\ UNCHANGED <<inputText, isLoading, loads, searchQuery, showExportModal>>

\* The Cancel button of the URL bar
CancelClick ==
    /\ showUrlInput
    /\ showUrlInput' = FALSE
    /\ urlInput' = <<>>
    /\ loadError' = <<>>
    /\ lastKey' = ""
    /\ CoreUnchanged
    /\ UNCHANGED <<inputText, isLoading, loads, searchQuery, showExportModal>>

\* The continuation of handleFetchUrl after a response that is ok:
\* setInput(text), the URL bar closed and cleared, and the finally block.
\* A variant skips the finally block.
FetchResolvesStillLoading(i) ==
    /\ Pending(i)
    /\ loads[i].kind = "url"
    /\ inputText' = loads[i].text
    /\ showUrlInput' = FALSE
    /\ urlInput' = <<>>
    /\ loads' = Settled(i, "done")
    /\ lastKey' = ""
    /\ CoreUnchanged
    /\ UNCHANGED <<isLoading, loadError, searchQuery, showExportModal>>

FetchResolves(i) ==
    /\ Pending(i)
    /\ loads[i].kind = "url"
    /\ inputText' = loads[i].text
    /\ showUrlInput' = FALSE
    /\ urlInput' = <<>>
    /\ isLoading' = FALSE
    /\ loads' = Settled(i, "done")
    /\ lastKey' = ""
    /\ CoreUnchanged
    /\ UNCHANGED <<loadError, searchQuery, showExportModal>>

\* The catch and the finally block of handleFetchUrl: fetch() rejected, the
\* status was not ok, or response.text() rejected
FetchRejects(i) ==
    \E message \in FetchErrors :
        /\ Pending(i)
        /\ loads[i].kind = "url"
        /\ loadError' = FetchErrorPrefix \o message
        /\ isLoading' = FALSE
        /\ loads' = Settled(i, "failed")
        /\ lastKey' = ""
        /\ CoreUnchanged
        /\ UNCHANGED <<inputText, showUrlInput, urlInput, searchQuery, showExportModal>>

FetchSettles(i) == FetchResolves(i) \/ FetchRejects(i)

\* The dismiss button of the load status, shown when loadError is set and
\* isLoading is not
DismissError ==
    /\ loadError # <<>>
    /\ ~isLoading
    /\ loadError' = <<>>
    /\ lastKey' = ""
    /\ CoreUnchanged
    /\ UNCHANGED <<inputText, isLoading, showUrlInput, urlInput, loads, searchQuery,
                   showExportModal>>

\* The Export button, rendered when result.success: setShowExportModal(true)
ExportClick ==
    /\ ResultSuccess(inputText)
    /\ showExportModal' = TRUE
    /\ lastKey' = ""
    /\ CoreUnchanged
    /\ UNCHANGED <<inputText, isLoading, showUrlInput, urlInput, loadError, loads,
                   searchQuery>>

\* The export dialog is on screen
ModalRendered == showExportModal /\ ResultSuccess(inputText)

\* onClose of the dialog (its close button or its overlay):
\* setShowExportModal(false)
ModalClose ==
    /\ ModalRendered
    /\ showExportModal' = FALSE
    /\ lastKey' = ""
    /\ CoreUnchanged
    /\ UNCHANGED <<inputText, isLoading, showUrlInput, urlInput, loadError, loads,
                   searchQuery>>

\* Escape pressed with the export dialog on screen and the focus in it or on
\* the Export button: neither the dialog nor the component has a handler for
\* the key.
KeyDownEscape ==
    /\ ModalRendered
    /\ lastKey' = "Escape"
    /\ CoreUnchanged
    /\ UNCHANGED <<inputText, isLoading, showUrlInput, urlInput, loadError, loads,
                   searchQuery, showExportModal>>

Init == InitWith({JNull})

Next ==
    \/ InputChange
    \/ HandleClear
    \/ HandlePaste
    \/ HandleSampleChange
    \/ FileInputChange
    \/ \E i \in 1..MaxLoads : ReaderOnLoad(i)
    \/ \E i \in 1..MaxLoads : ReaderOnError(i)
    \/ ToggleUrlInput
    \/ UrlInputChange
    \/ FetchClick
    \/ UrlKeyDownEnter
    \/ UrlKeyDownEscape
    \/ CancelClick
    \/ \E i \in 1..MaxLoads : FetchResolves(i)
    \/ \E i \in 1..MaxLoads : FetchRejects(i)
    \/ DismissError
    \/ ExportClick
    \/ ModalClose
    \/ KeyDownEscape

Spec == Init /\ [][Next]_vars

\* A file read that was started ends with onload or onerror, and a fetch that
\* was started is settled: its promise is fulfilled or rejected.
FairSpec ==
    /\ Spec
    /\ \A i \in 1..MaxLoads : WF_vars(ReaderSettles(i)) /\ WF_vars(FetchSettles(i))

----------------------------------------------------------------------------
(* Properties of the JsonFormatter component *)

\* C21: pressing Escape closes whichever of the URL input bar and the export
\* dialog is open: right after the key press the bar is hidden and
\* showExportModal is false, the dialog no longer rendered.
C21_EscapeCloses ==
    lastKey = "Escape" => (~showUrlInput /\ ~showExportModal /\ ~ModalRendered)

\* Escape was pressed with the export dialog on screen and the URL bar
\* hidden: the dialog is still there.
C21_ModalStaysOpen ==
    /\ lastKey = "Escape"
    /\ ~showUrlInput
    /\ ModalRendered

\* The name ends with ".json" or the type is application/json, and the size
\* is at most 10MB
JsonFileWithinLimit(file) ==
    /\ \/ (Len(file.name) >= 5 /\ SubSeq(file.name, Len(file.name) - 4, Len(file.name)) = <<".", "j", "s", "o", "n">>)
       \/ file.type = <<"a", "p", "p", "l", "i", "c", "a", "t", "i", "o", "n", "/", "j", "s", "o", "n">>
    /\ file.size <= 10 * 1024 * 1024

\* C22: a file chosen for upload is accepted, a read of it started whose
\* onload makes its text the input, if and only if its name ends with ".json"
\* or its type is application/json, and its size is at most 10MB; when it is
\* rejected loadError is set to a message, the input text is unchanged,
\* isLoading is not set to true and no read is started.
C22_FileAcceptance ==
    [][/\ \A file \in Files :
              HandleFileUpload(file) =>
                  IF JsonFileWithinLimit(file)
                  THEN /\ Len(loads') = Len(loads) + 1
                       /\ loads'[Len(loads')].kind = "file"
                       /\ loads'[Len(loads')].status = "pending"
                       /\ \A j \in 1..Len(loads) : loads'[j] = loads[j]
                       /\ isLoading'
                       /\ inputText' = inputText
                  ELSE /\ loadError' # <<>>
                       /\ inputText' = inputText
                       /\ ~isLoading'
                       /\ loads' = loads
       /\ \A i \in 1..MaxLoads : ReaderOnLoad(i) => inputText' = loads[i].text]_vars

\* The text of an uploaded file became the input, and a file chosen after it
\* was rejected for its size.
C22_Witness ==
    /\ \E i \in 1..Len(loads) :
          /\ loads[i].kind = "file"
          /\ loads[i].status = "done"
          /\ inputText = loads[i].text
    /\ loadError = FileSizeError
    /\ ~isLoading

\* A file named in capitals and without the JSON type was rejected.
C22_TypeRejected ==
    /\ loadError = FileTypeError
    /\ loads = <<>>
    /\ ~isLoading

\* C26: at every moment isLoading is true whenever a load (a file read or a
\* URL fetch, one started with Enter while another is in flight included)
\* has been started and has not completed; the completion of one load never
\* sets isLoading to false while another is still in flight.
C26_LoadingWhileInFlight ==
    (\E i \in 1..Len(loads) : loads[i].status = "pending") => isLoading

\* Two fetches were started with Enter, the first one has completed: the
\* second is in flight and isLoading is false.
C26_SecondStillInFlight ==
    /\ Len(loads) = 2
    /\ loads[1].kind = "url"
    /\ loads[2].kind = "url"
    /\ loads[1].status = "done"
    /\ loads[2].status = "pending"
    /\ ~isLoading

\* C27: when several loads are started one after another and all of them
\* complete successfully, the input text after the last completion is the
\* content of the load that was started last, whatever the order of the
\* completions.
C27_LastStartedWins ==
    [][(/\ \E i \in 1..Len(loads) : loads[i].status = "pending"
        /\ Len(loads') = Len(loads)
        /\ Len(loads') >= 2
        /\ \A i \in 1..Len(loads') : loads'[i].status = "done")
       => inputText' = loads'[Len(loads')].text]_vars

\* Two loads of different contents have completed, the one started last
\* first: the input is the content of the one started first.
C27_FirstStartedWins ==
    /\ Len(loads) = 2
    /\ loads[1].status = "done"
    /\ loads[2].status = "done"
    /\ loads[1].text # loads[2].text
    /\ inputText = loads[1].text
    /\ lastKey = ""
    /\ ~showUrlInput
    /\ loadError = <<>>

\* Load i is a fetch in flight
FetchInFlight(i) ==
    /\ i \in 1..Len(loads)
    /\ loads[i].kind = "url"
    /\ loads[i].status = "pending"

\* C28: every URL fetch that is started eventually ends, and ends with
\* isLoading set to false; when it fails (the URL is not valid, the network
\* fails or the status is not 2xx) the input text is unchanged, the URL bar
\* stays open with its text and loadError is set to a non-empty message; when
\* it succeeds the input becomes the response text, the URL bar is hidden and
\* urlInput is cleared.
C28_FetchEnds ==
    /\ [][/\ \A i \in 1..MaxLoads :
               (FetchInFlight(i) /\ loads'[i].status = "failed") =>
                   /\ ~isLoading'
                   /\ inputText' = inputText
                   /\ showUrlInput' = showUrlInput
                   /\ urlInput' = urlInput
                   /\ loadError' # <<>>
          /\ \A i \in 1..MaxLoads :
               (FetchInFlight(i) /\ loads'[i].status = "done") =>
                   /\ ~isLoading'
                   /\ inputText' = loads[i].text
                   /\ ~showUrlInput'
                   /\ urlInput' = <<>>
          /\ (lastKey' = "Enter" /\ trim(urlInput) # <<>> /\ loads' = loads) =>
                   /\ inputText' = inputText
                   /\ showUrlInput'
                   /\ urlInput' = urlInput
                   /\ loadError' # <<>>
                   /\ isLoading' = isLoading]_vars
    /\ \A i \in 1..MaxLoads : FetchInFlight(i) ~> (i \in 1..Len(loads) /\ loads[i].status # "pending")

\* A fetch has failed with the URL bar open: the bar is still open with its
\* text, the message is shown and isLoading is false.
C28_Witness ==
    /\ \E i \in 1..Len(loads) : loads[i].kind = "url" /\ loads[i].status = "failed"
    /\ \A i \in 1..Len(loads) : loads[i].status # "pending"
    /\ ~isLoading
    /\ showUrlInput
    /\ urlInput = <<" ", "h", "t", "t", "p", ":", "/", "/", "a", " ">>
    /\ loadError = FetchErrorPrefix \o <<"H", "T", "T", "P", " ", "4", "0", "4", ":", " ", "N", "o", "t", " ", "F", "o", "u", "n", "d">>

\* A fetch has succeeded: its text is the input and the bar is closed.
C28_Succeeded ==
    /\ Len(loads) = 1
    /\ loads[1].kind = "url"
    /\ loads[1].status = "done"
    /\ inputText = loads[1].text
    /\ ~isLoading
    /\ ~showUrlInput
    /\ urlInput = <<>>

\* Enter was pressed on a text that is not a URL.
C28_NotAUrl ==
    /\ lastKey = "Enter"
    /\ loadError = UrlFormatError
    /\ showUrlInput
    /\ urlInput = <<"x">>

====
